---- MODULE Spec2Model ----
(***************************************************************************)
(* A model of the Discogs crawl pipeline (ignaciolinari/discogs-SR):       *)
(*   - scraper/http.py    DiscogsScraperSession.get: pacing, bounded retry *)
(*   - scraper/db.py      the SQLite persistence primitives                *)
(*   - scraper/pipeline.py DiscogsScraperPipeline: crawl, _persist_release *)
(*   - sr_discogs/recomendar.py  item-id resolution                        *)
(* Each part has its own specification (SpecHttp, SpecInteractions,       *)
(* SpecItems, SpecPipe, SpecRecord); the variables of the other parts stay *)
(* unchanged under it.                                                     *)
(***************************************************************************)
EXTENDS Integers, Sequences, FiniteSets, TLC

\* Python's None / SQL NULL.  Ids, times and text values of the model are
\* never equal to it.
NULL == -1

(***************************************************************************)
(* Bounds of the model.                                                    *)
(***************************************************************************)
\* Largest max_retries a session is configured with.
MaxRetries == 2
\* get calls made on one session.
MaxCalls == 3
\* Longest time, in ticks, between sending a request and its outcome.
MaxDur == 1
\* Longest time, in ticks, the caller spends between two get calls.
MaxGap == 5
\* Item ids of the items table are 1..MaxItemId.
MaxItemId == 4
\* Rows the interactions table is let grow to.
MaxRows == 2
\* Item-id lookups made by the recommender.
MaxLookups == 2
\* Crawl runs of the pipeline.
MaxRuns == 2
\* Largest max_pages a crawl is started with.
MaxPages == 2
\* Largest max_user_pages a listing fetch is started with.
MaxUserPages == 3
\* Most names on one listing page.
MaxPageNames == 3
\* Latest modification time of the cookie file.
MaxMtime == 1
\* Largest reload_interval of a cookie loader, in ticks.
MaxInterval == 2
\* Latest time an expires field names; check_expiration is called at the
\* times 1 .. MaxEpoch - 1.
MaxEpoch == 3
\* Most review nodes parsed.
MaxReviews == 2

VARIABLES
    \* ---- DiscogsScraperSession (scraper/http.py)
    cfg,                \* min_delay, delay_jitter, max_retries, backoff_factor
    since_response,     \* time.monotonic() - self._last_request_time, in ticks
                        \* (NULL while _last_request_time is None)
    pc,                 \* "idle": no get in progress; "loop": inside get's while
    retries,            \* the local of get
    callResult,         \* how the last get ended: "returned", "fetch_error"
    \* ---- what an observer of the session records
    calls,              \* get calls started on this session
    attempts,           \* HTTP attempts of the current call
    lastOutcome,        \* outcome of the latest attempt of the current call
    kinds,              \* kinds of failure the current call has retried after
    sleeps,             \* delay of every backoff sleep of the current call
    since_send,         \* time since the latest HTTP attempt was sent (NULL: none)
    firstGap,           \* time between the last attempt of the previous call
                        \* and the first attempt of the current one (NULL: none)
    prevLastKind,       \* how the last attempt of the previous call ended
    sent,               \* the latest attempt: the time since the last response
                        \* when it was sent (NULL: no response before it) and
                        \* the jitter _respect_delay drew for it
    \* ---- the SQLite database (scraper/db.py), as the open connection sees it
    items,              \* items table: item_id -> row
    users,              \* users table: user_id -> row
    interactions,       \* interactions table: a set of rows, each with a rowid
    seq,                \* highest interaction_id handed out (AUTOINCREMENT)
    schema_ready,       \* ensure_schema has run: current columns, unique edge index
    committed,          \* the tables as committed to the database file
    lastOp,             \* the latest persistence call and how it went
    \* ---- sr_discogs/recomendar.py
    cache,              \* lru_cache of _resolve_item_id_cached: raw id -> result
    lookups,            \* lookups made so far
    resolved,           \* the latest lookup: raw id, answer, and the item the
                        \* release was first stored under when it was asked
    firstUnder,         \* release id -> item_id of the row it was first stored under
    \* ---- scraper/pipeline.py: DiscogsScraperPipeline.crawl
    crawlPc,            \* "idle", "page", "release" or "persist"
    crawlCfg,           \* max_pages, release_limit and commit_every of the run
    page_number,        \* page the for loop of crawl stands at
    summaries,          \* release ids of the current page not yet visited
    detail,             \* release whose detail crawl has just fetched or persisted
    processed,          \* crawl's counter of releases processed
    pending_release_ids,\* crawl's set of release ids already visited
    runs,               \* crawl runs started
    exitKind,           \* how the latest run left crawl
    persistCalls,       \* release id -> calls of _persist_release made for it
    counted,            \* releases the running crawl has counted as processed
    requests,           \* what the running crawl has asked for so far, in order:
                        \* search pages, detail pages and _persist_release calls
    \* ---- what an observer of the connection records
    blockExit,          \* how the latest  with get_connection  block was left,
                        \* and the rows it had written since its last commit
    \* ---- scraper/pipeline.py: DiscogsScraperPipeline._fetch_user_list
    userList,           \* one call: its position, the loop's page, seen and
                        \* collected, and the pages asked for with what each gave
    \* ---- scraper/auth.py: CookieFileLoader
    cookieFile,         \* the cookie file: whether it exists, what it holds, its
                        \* modification time
    loader,             \* the loader's fields, the session's cookie, and what
                        \* the latest apply and check_expiration did
    missingRun,         \* the current run of consecutive apply calls made with
                        \* the file missing, and the warnings it logged
    \* ---- parse_release_detail (scraper/parsers.py)
    parsedReviews       \* the ratings given to the Review objects built so far,
                        \* each with the element it was read from

httpVars == <<cfg, since_response, pc, retries, callResult, calls, attempts,
              lastOutcome, kinds, sleeps, since_send, firstGap, prevLastKind, sent>>

dbVars == <<items, users, interactions, seq, schema_ready, committed, lastOp>>

resolveVars == <<cache, lookups, resolved, firstUnder>>

pipeVars == <<crawlPc, crawlCfg, page_number, summaries, detail, processed,
              pending_release_ids, runs, exitKind, persistCalls, counted, requests>>

callVars == <<blockExit>>

listVars == <<userList>>

authVars == <<cookieFile, loader, missingRun>>

vars == <<httpVars, dbVars, resolveVars, pipeVars, callVars, listVars, authVars, parsedReviews>>

(***************************************************************************)
(* scraper/db.py: the tables                                               *)
(***************************************************************************)
\* SQL NULL in a TEXT column of the model.
NoText == "<NULL>"

ItemIds == 1..MaxItemId
EdgeItems == {1, 2}
UserIds == {"ann", "bob"}
InteractionTypes == {"collection", "rating"}
Ratings == {NULL, 4}
Dates == {NULL, 1}

EmptyTable == [x \in {} |-> NULL]

\* What connection.commit() writes to the file.
Snapshot(its, us, ias, sq) ==
    [items |-> its, users |-> us, interactions |-> ias, seq |-> sq]

NoOp == [op |-> "none", raised |-> "none", conflict |-> FALSE]

NoLookup == [raw |-> NULL, result |-> NULL, expected |-> NULL]

NoExit == [kind |-> "none", pending |-> {}]

\* No connection block left yet.
InitCallIdle == blockExit = NoExit

\* No listing fetch under way.
NoUserList ==
    [pc |-> "idle", max_user_pages |-> 0, page |-> 1, seen |-> {},
     collected |-> <<>>, asked |-> <<>>, gave |-> <<>>, links |-> <<>>]

InitListIdle == userList = NoUserList

\* What a cookie file holds: its format, the value of the cookie "session"
\* among its parsable entries ("none": no parsable entry; "other": parsable
\* entries for other cookies only) and the expires
\* field of its __cf_bm entry (kind "absent": no such entry; "missing": an
\* entry without expires; "int": an epoch number t; "iso": an ISO-8601 string
\* for the time t; "text": another string; "other": another JSON value).
FileContent(format, value, cf) == [format |-> format, value |-> value, cf |-> cf]

NoCf == [kind |-> "absent", t |-> 0]

\* No cookie file.
NoFile == [exists |-> FALSE, content |-> FileContent("empty", "none", NoCf), mtime |-> 0]

\* auth.py 27-35: a CookieFileLoader as constructed, with the default
\* reload_interval (900 s, one tick here), and a session without the cookie.
NewLoader(reload_interval) ==
    [reload_interval |-> reload_interval, _cached_jar |-> "none",
     _last_mtime |-> NULL, since_refresh |-> NULL, _warned_missing |-> FALSE,
     _warned_expired |-> FALSE, session |-> "none", before |-> "none",
     applied |-> "none", parsed |-> FALSE, forced |-> FALSE,
     checked |-> [result |-> "none", file |-> NoFile, now |-> 0]]

NoRun == [active |-> FALSE, warnings |-> 0]

\* A pipeline without a cookie loader.
InitAuthIdle ==
    /\ cookieFile = NoFile
    /\ loader = NewLoader(1)
    /\ missingRun = NoRun

\* A database file nothing has been written to, and a recommender that has
\* looked nothing up.
InitDbIdle ==
    /\ items = EmptyTable
    /\ users = EmptyTable
    /\ interactions = {}
    /\ seq = 0
    /\ schema_ready = FALSE
    /\ committed = Snapshot(EmptyTable, EmptyTable, {}, 0)
    /\ lastOp = NoOp
    /\ cache = EmptyTable
    /\ lookups = 0
    /\ resolved = NoLookup
    /\ firstUnder = EmptyTable

\* COALESCE(a, b) on an INTEGER column and on a TEXT column.
Coalesce(a, b) == IF a # NULL THEN a ELSE b
CoalesceText(a, b) == IF a # NoText THEN a ELSE b

\* ---- interactions ------------------------------------------------------
\* Rows hit by ON CONFLICT(user_id, item_id, interaction_type).
ConflictRows(rows, u, i, t) ==
    {r \in rows : r.user_id = u /\ r.item_id = i /\ r.interaction_type = t}

SameEdge(r, q) ==
    r.user_id = q.user_id /\ r.item_id = q.item_id
        /\ r.interaction_type = q.interaction_type

NewInteraction(rowid, u, i, t, rating, date_added) ==
    [rowid |-> rowid, user_id |-> u, item_id |-> i, interaction_type |-> t,
     rating |-> rating, date_added |-> date_added]

\* An INSERT that never takes the ON CONFLICT branch.
record_interaction_plain_insert(rows, rowid, u, i, t, rating, date_added) ==
    rows \cup {NewInteraction(rowid, u, i, t, rating, date_added)}

\* An INSERT ... ON CONFLICT DO NOTHING: the row already stored is kept.
record_interaction_keep_first(rows, rowid, u, i, t, rating, date_added) ==
    IF ConflictRows(rows, u, i, t) = {}
    THEN rows \cup {NewInteraction(rowid, u, i, t, rating, date_added)}
    ELSE rows

\* A REPLACE that deletes the row already stored and inserts none.
record_interaction_drop_on_conflict(rows, rowid, u, i, t, rating, date_added) ==
    IF ConflictRows(rows, u, i, t) = {}
    THEN rows \cup {NewInteraction(rowid, u, i, t, rating, date_added)}
    ELSE rows \ ConflictRows(rows, u, i, t)

\* db.py 359-377: INSERT ... ON CONFLICT(user_id, item_id, interaction_type)
\* DO UPDATE SET rating = excluded.rating,
\*               date_added = COALESCE(excluded.date_added, date_added).
record_interaction(rows, rowid, u, i, t, rating, date_added) ==
    LET hit == ConflictRows(rows, u, i, t)
    IN  IF hit = {}
        THEN rows \cup {NewInteraction(rowid, u, i, t, rating, date_added)}
        ELSE (rows \ hit) \cup
             {[r EXCEPT !.rating = rating,
                        !.date_added = Coalesce(date_added, r.date_added)] : r \in hit}

\* db.py 359-377 on a table tb = [rows, seq] with the unique edge index in
\* place: one record_interaction call c, the interaction_id of a new row taken
\* from the AUTOINCREMENT sequence (db.py 179).
RecordCall(tb, c) ==
    [rows |-> record_interaction(tb.rows, tb.seq + 1, c.user_id, c.item_id,
                                 c.interaction_type, c.rating, c.date_added),
     seq |-> IF ConflictRows(tb.rows, c.user_id, c.item_id, c.interaction_type) = {}
             THEN tb.seq + 1 ELSE tb.seq]

\* A de-duplication that keeps the oldest row of each group.
_deduplicate_interactions_keep_first(rows) ==
    {r \in rows : \A q \in rows : SameEdge(r, q) => q.rowid >= r.rowid}

\* db.py 257-267: DELETE the rows whose rowid is not the MAX(rowid) of their
\* (user_id, item_id, interaction_type) group.
_deduplicate_interactions(rows) ==
    {r \in rows : \A q \in rows : SameEdge(r, q) => q.rowid <= r.rowid}

\* ---- items ---------------------------------------------------------------
\* db.py 291-306: the keyword-only parameters of upsert_item, none with a default.
UpsertItemKeywords ==
    {"item_id", "source_release_id", "title", "artists", "year", "genres",
     "styles", "image_url", "country", "released", "format_summary",
     "label_summary"}

RECURSIVE SortedSeq(_)
SortedSeq(S) ==
    IF S = {} THEN <<>>
    ELSE LET least == CHOOSE x \in S : \A y \in S : x <= y
         IN  <<least>> \o SortedSeq(S \ {least})

\* db.py 307-308: ", ".join(sorted({g for g in genres if g})); a name is a
\* positive code, the empty name is 0, the joined text is the sorted sequence.
JoinSorted(names) == SortedSeq({g \in names : g # 0})

\* Python's  text or default.
OrDefault(text, default) == IF text = NoText \/ text = "" THEN default ELSE text

\* db.py 310-356: the INSERT ... ON CONFLICT(item_id) DO UPDATE of upsert_item.
UpsertItemRow(its, kw) ==
    LET title == OrDefault(kw.title, "Unknown Title")
        artist == OrDefault(kw.artists, "Unknown Artist")
        inserted ==
            [source_release_id |-> kw.source_release_id,
             title |-> title, artist |-> artist, year |-> kw.year,
             genre |-> JoinSorted(kw.genres), style |-> JoinSorted(kw.styles),
             image_url |-> kw.image_url, country |-> kw.country,
             released |-> kw.released, format_summary |-> kw.format_summary,
             label_summary |-> kw.label_summary]
    IN  IF kw.item_id \notin DOMAIN its
        THEN inserted
        ELSE LET old == its[kw.item_id]
             IN  [source_release_id |->
                      Coalesce(kw.source_release_id, old.source_release_id),
                  title |-> IF title # NoText /\ title # "" THEN title ELSE old.title,
                  artist |-> IF artist # NoText /\ artist # "" THEN artist ELSE old.artist,
                  year |-> Coalesce(kw.year, old.year),
                  genre |-> inserted.genre,
                  style |-> inserted.style,
                  image_url |-> CoalesceText(kw.image_url, old.image_url),
                  country |-> CoalesceText(kw.country, old.country),
                  released |-> CoalesceText(kw.released, old.released),
                  format_summary |-> CoalesceText(kw.format_summary, old.format_summary),
                  label_summary |-> CoalesceText(kw.label_summary, old.label_summary)]

\* Table t with key k set to row.
Put(t, k, row) == [x \in DOMAIN t \cup {k} |-> IF x = k THEN row ELSE t[x]]

\* db.py 291-356: a call upsert_item(cursor, **kw).  Python binds the keywords
\* first: a missing or an unknown keyword raises TypeError before any SQL runs.
upsert_item(its, kw) ==
    IF DOMAIN kw # UpsertItemKeywords
    THEN [raised |-> "TypeError", items |-> its]
    ELSE [raised |-> "none", items |-> Put(its, kw.item_id, UpsertItemRow(its, kw))]

\* db.py 82-84: UPDATE items SET source_release_id = item_id
\*              WHERE source_release_id IS NULL.
BackfillSourceRelease(its) ==
    [i \in DOMAIN its |->
        [its[i] EXCEPT !.source_release_id = Coalesce(its[i].source_release_id, i)]]

\* ---- handlers ------------------------------------------------------------
Op(name, raised, conflict) == [op |-> name, raised |-> raised, conflict |-> conflict]

\* db.py 29-218: ensure_schema creates what is missing, backfills
\* source_release_id, removes duplicate edges, creates the unique index and
\* commits.
EnsureSchema ==
    /\ items' = BackfillSourceRelease(items)
    /\ interactions' = _deduplicate_interactions(interactions)
    /\ schema_ready' = TRUE
    /\ committed' = Snapshot(items', users, interactions', seq)
    /\ lastOp' = Op("ensure_schema", "none", FALSE)
    /\ UNCHANGED <<users, seq>>

\* db.py 19-26 and 359-377: a caller records one edge inside
\*     with get_connection(config) as connection:
\*         record_interaction(connection.cursor(), user_id, item_id, type, ...)
\* and the block's exit commits.  Without the unique index the ON CONFLICT
\* clause matches no constraint, SQLite raises OperationalError and the block
\* is left without a commit.  A conflicting insert also consumes an
\* AUTOINCREMENT id in SQLite; the model hands ids out densely.
RecordInteraction ==
    \E u \in UserIds, i \in EdgeItems, t \in InteractionTypes,
       rating \in Ratings, date_added \in Dates :
        LET conflict == ConflictRows(interactions, u, i, t) # {}
        IN  /\ conflict \/ ~schema_ready \/ Cardinality(interactions) < MaxRows
            /\ IF ~schema_ready
               THEN /\ lastOp' = Op("record_interaction", "OperationalError", FALSE)
                    /\ UNCHANGED <<interactions, seq, committed>>
               ELSE /\ interactions' =
                           record_interaction(interactions, seq + 1, u, i, t,
                                              rating, date_added)
                    /\ seq' = IF conflict THEN seq ELSE seq + 1
                    /\ lastOp' = Op("record_interaction", "none", conflict)
                    /\ committed' = Snapshot(items, users, interactions', seq')
            /\ UNCHANGED <<items, users, schema_ready>>

\* The catalogue the ingester reads: one master, id 1, whose pressings are the
\* releases below MaxItemId; release MaxItemId has no master.
ReleaseIds == 2..MaxItemId
MasterOf(r) == IF r < MaxItemId THEN 1 ELSE NULL

\* legacy/fill_db_discogs_API.py: canonical_id = master_id or release_id.
CanonicalId(r) == IF MasterOf(r) # NULL THEN MasterOf(r) ELSE r

\* The releases the search lists: a pressing of the master and the release
\* without one.
Listed == {2, MaxItemId}

\* The keywords of a complete upsert_item call for release r stored under
\* item_id m (legacy/fill_db_discogs_API.py: item_id = canonical_id,
\* source_release_id = release_id).
ItemKwargs(m, r) ==
    [item_id |-> m, source_release_id |-> r, title |-> "A", artists |-> "B",
     year |-> NULL, genres |-> {}, styles |-> {}, image_url |-> NoText,
     country |-> NoText, released |-> NoText, format_summary |-> NoText,
     label_summary |-> NoText]

\* db.py 19-26 and 291-356: a caller stores one release inside
\*     with get_connection(config) as connection:
\*         upsert_item(connection.cursor(), item_id=m, source_release_id=r, ...)
\* and the block's exit commits.  Before ensure_schema the table or its
\* source_release_id column is missing and SQLite raises OperationalError.
StoreItem(r, kw) ==
        LET m == kw.item_id
            call == upsert_item(items, kw)
        IN  /\ IF call.raised # "none"
               THEN /\ lastOp' = Op("upsert_item", call.raised, FALSE)
                    /\ UNCHANGED <<items, committed, firstUnder>>
               ELSE IF ~schema_ready
               THEN /\ lastOp' = Op("upsert_item", "OperationalError", FALSE)
                    /\ UNCHANGED <<items, committed, firstUnder>>
               ELSE /\ items' = call.items
                    /\ committed' = Snapshot(items', users, interactions, seq)
                    /\ lastOp' = Op("upsert_item", "none", m \in DOMAIN items)
                    /\ firstUnder' = IF r \in DOMAIN firstUnder THEN firstUnder
                                     ELSE Put(firstUnder, r, m)
            /\ UNCHANGED <<users, interactions, seq, schema_ready>>

UpsertItem == \E r \in ReleaseIds : StoreItem(r, ItemKwargs(CanonicalId(r), r))

\* The calls of upsert_item for release r whose fields vary: a title and an
\* artist that may be empty, a year and an image that may be missing, genres
\* that may be none or unsorted.
FieldKwargs(r) ==
    { [ItemKwargs(CanonicalId(r), r) EXCEPT
          !.title = f.title, !.artists = f.artists, !.year = f.year,
          !.image_url = f.image_url, !.genres = f.genres]
      : f \in [title : {"", "A", "T"}, artists : {"", "B"}, year : {NULL, 7},
               image_url : {NoText, "U"}, genres : {{}, {2, 1}}] }

UpsertItemFields == \E r \in Listed : \E kw \in FieldKwargs(r) : StoreItem(r, kw)

\* recomendar.py 114-137: the two SELECT ... LIMIT 1 of
\* _resolve_item_id_cached, by item_id first and by source_release_id second;
\* with several rows matching, SQLite may return any of them.
LookupResults(its, candidate) ==
    IF candidate \in DOMAIN its
    THEN {candidate}
    ELSE LET hits == {i \in DOMAIN its : its[i].source_release_id = candidate}
         IN  IF hits = {} THEN {NULL} ELSE hits

\* recomendar.py 114-140: _resolve_item_id(raw_id).  lru_cache answers a raw
\* id it has seen from its cache, a None answer included; otherwise the
\* queries run on a connection of their own, which sees committed rows only.
\* Before ensure_schema the query raises and nothing is cached.
ResolveItemId ==
    /\ schema_ready
    /\ lookups < MaxLookups
    /\ \E raw \in ItemIds :
        \E result \in (IF raw \in DOMAIN cache THEN {cache[raw]}
                       ELSE LookupResults(committed.items, raw)) :
            /\ cache' = Put(cache, raw, result)
            /\ resolved' = [raw |-> raw, result |-> result,
                            expected |-> IF raw \in DOMAIN firstUnder
                                         THEN firstUnder[raw] ELSE NULL]
    /\ lookups' = lookups + 1
    /\ UNCHANGED firstUnder

\* An items table written before source_release_id existed.
LegacyItems ==
    {EmptyTable} \cup
    { Put(EmptyTable, i, [UpsertItemRow(EmptyTable, ItemKwargs(i, NULL))
                              EXCEPT !.source_release_id = NULL])
        : i \in {CanonicalId(r) : r \in ReleaseIds} }

\* A database written before the unique index existed (legacy/
\* fill_db_discogs_API.py stores "collection" edges only): any rows, edges
\* repeated or not.
LegacyInteractions ==
    UNION {
        { {NewInteraction(n, s[n][1], s[n][2], "collection", NULL, NULL) : n \in 1..len}
            : s \in [1..len -> UserIds \X EdgeItems] }
        : len \in 0..MaxRows }

(***************************************************************************)
(* scraper/pipeline.py: DiscogsScraperPipeline                             *)
(***************************************************************************)
\* Usernames as Discogs pages print them; " " stands for a blank name.
Names == {"ann", "Ann", "bob"}

\* str.strip and str.lower on the names of the model.
Strip(u) == IF u = " " THEN "" ELSE u
Lower(u) == IF u = "Ann" THEN "ann" ELSE u

\* parsers.py 300-316: the user id a profile page carries.
ProfileId(u) == IF Lower(u) = "ann" THEN "7" ELSE "8"

\* pipeline.py 393-425 and parsers.py 303: what the profile request of
\* _ensure_user comes to: none made (fetch_user_profiles off), session.get
\* raising FetchError (retry budget used up, or a status that is not
\* retried), parse_user_profile raising, a profile without an id on the page
\* (user_id = username) or a profile with its id.
FetchKinds == {"off", "fetch_error", "parse_error", "no_id", "id"}

\* The None of Optional[UserProfile].
NoProfile ==
    [user_id |-> NoText, username |-> NoText, location |-> NoText,
     joined_date |-> NoText]

\* A profile request that lets FetchError through.
_fetch_user_profile_uncaught(username, kind) ==
    IF kind \in {"fetch_error", "parse_error"}
    THEN [raised |-> IF kind = "fetch_error" THEN "RuntimeError" ELSE "none",
          profile |-> NoProfile]
    ELSE [raised |-> "none",
          profile |-> [user_id |-> IF kind = "id" THEN ProfileId(username)
                                   ELSE username,
                       username |-> username, location |-> "L",
                       joined_date |-> "J"]]

\* pipeline.py 412-425: _fetch_user_profile(username): RuntimeError of the
\* session and any exception of the parser are caught and None is returned.
\* parsers.py 300-316: the parsed profile carries the id of the page, or the
\* username in its place, the location and the join date.
_fetch_user_profile(username, kind) ==
    IF kind \in {"fetch_error", "parse_error"}
    THEN [raised |-> "none", profile |-> NoProfile]
    ELSE [raised |-> "none",
          profile |-> [user_id |-> IF kind = "id" THEN ProfileId(username)
                                   ELSE username,
                       username |-> username, location |-> "L",
                       joined_date |-> "J"]]

\* Python's  a or b  on an Optional[int].
IntOr(a, b) == IF a = NULL \/ a = 0 THEN b ELSE a

\* parsers.py / models.py: the ReleaseSummary and ReleaseDetail of release r,
\* detail.release_id already defaulted by _fetch_release_detail (275-280).
\* The have list of the release without a master starts with a blank name.
Summary(r) == [release_id |-> r, title |-> "A", artists |-> "B", year |-> NULL]

Detail(r) ==
    [release_id |-> r, master_id |-> MasterOf(r), title |-> "A", artists |-> "B",
     year |-> NULL, genres |-> {1}, styles |-> {}, image_url |-> NoText,
     have_users |-> IF MasterOf(r) = NULL THEN <<" ", "ann">> ELSE <<"ann">>,
     want_users |-> <<"bob">>,
     reviews |-> << [username |-> "Ann", rating |-> 4, date |-> 1],
                    [username |-> "bob", rating |-> NULL, date |-> NULL] >>]

\* The tables as the open connection sees them.
Working == Snapshot(items, users, interactions, seq)

\* The outcome of a call: the exception it raised, if any, and the tables.
St(raised, db) == [raised |-> raised, db |-> db]

\* db.py 270-288: INSERT INTO users ... ON CONFLICT(user_id) DO UPDATE SET
\* username = excluded.username, location and joined_date COALESCEd.
upsert_user(us, user_id, username, location, joined_date) ==
    Put(us, user_id,
        IF user_id \in DOMAIN us
        THEN [username |-> username,
              location |-> CoalesceText(location, us[user_id].location),
              joined_date |-> CoalesceText(joined_date, us[user_id].joined_date)]
        ELSE [username |-> username, location |-> location,
              joined_date |-> joined_date])

\* A lookup that compares the names as they are written.
UserMatchesExactCase(us, lookup_key) ==
    {id \in DOMAIN us : id = lookup_key \/ us[id].username = lookup_key}

\* A lookup that finds no row.
UserMatchesNever(us, lookup_key) == {}

\* pipeline.py 364-372: the rows of SELECT ... WHERE lower(user_id) = ? OR
\* lower(username) = ?.
UserMatches(us, lookup_key) ==
    {id \in DOMAIN us : Lower(id) = lookup_key \/ Lower(us[id].username) = lookup_key}

\* pipeline.py 358-410: _ensure_user(cursor, username); kind is what the
\* profile fetch comes to.  The session's _known_users set is only ever
\* added to and is left out.  requested: the call asked for the profile page
\* (pipeline.py 386-388).
_ensure_user(db, username, kind) ==
    LET normalized == Strip(username)
        lookup_key == Lower(normalized)
        found == UserMatches(db.users, lookup_key)
        fetched == IF kind = "off"
                   THEN [raised |-> "none", profile |-> NoProfile]
                   ELSE _fetch_user_profile(normalized, kind)
        profile == IF fetched.profile = NoProfile
                   THEN [user_id |-> normalized, username |-> normalized,
                         location |-> NoText, joined_date |-> NoText]
                   ELSE fetched.profile
    IN  IF normalized = ""
        THEN [raised |-> "ValueError", db |-> db, user_id |-> NoText,
              requested |-> FALSE]
        ELSE IF found # {}
        THEN [raised |-> "none", db |-> db, user_id |-> CHOOSE id \in found : TRUE,
              requested |-> FALSE]
        ELSE IF fetched.raised # "none"
        THEN [raised |-> fetched.raised, db |-> db, user_id |-> NoText,
              requested |-> kind # "off"]
        ELSE [raised |-> "none",
              db |-> [db EXCEPT !.users = upsert_user(@, profile.user_id,
                                                      profile.username,
                                                      profile.location,
                                                      profile.joined_date)],
              user_id |-> profile.user_id,
              requested |-> kind # "off"]

\* pipeline.py 322-356: the body shared by _record_collection,
\* _record_wantlist and _record_review: _ensure_user, then record_interaction
\* with the user_id of the row it returned.
RecordFor(db, username, release_id, type, rating, date_added, kind) ==
    LET user == _ensure_user(db, username, kind)
        conflict == ConflictRows(user.db.interactions, user.user_id,
                                 release_id, type) # {}
    IN  IF user.raised # "none"
        THEN St(user.raised, db)
        ELSE St("none",
                [user.db EXCEPT
                    !.interactions =
                        record_interaction(@, user.db.seq + 1, user.user_id,
                                           release_id, type, rating, date_added),
                    !.seq = IF conflict THEN @ ELSE @ + 1])

_record_collection(db, username, release_id, kind) ==
    RecordFor(db, username, release_id, "collection", NULL, NULL, kind)

_record_wantlist(db, username, release_id, kind) ==
    RecordFor(db, username, release_id, "wantlist", NULL, NULL, kind)

_record_review(db, review, release_id, kind) ==
    RecordFor(db, review.username, release_id, "rating", review.rating,
              review.date, kind)

\* pipeline.py 299-305: the two for loops over have_users and want_users; an
\* exception ends the loop.
RECURSIVE RecordEach(_, _, _, _, _)
RecordEach(st, names, release_id, type, kind) ==
    IF names = <<>> \/ st.raised # "none"
    THEN st
    ELSE RecordEach(RecordFor(st.db, Head(names), release_id, type, NULL, NULL, kind),
                    Tail(names), release_id, type, kind)

\* pipeline.py 307-311: the loop over reviews, those without a rating skipped.
RECURSIVE RecordReviews(_, _, _, _)
RecordReviews(st, reviews, release_id, kind) ==
    IF reviews = <<>> \/ st.raised # "none"
    THEN st
    ELSE RecordReviews(IF Head(reviews).rating = NULL THEN st
                       ELSE _record_review(st.db, Head(reviews), release_id, kind),
                       Tail(reviews), release_id, kind)

\* A unique() that compares the names as they are written.
unique_exact_case(names) ==
    LET RECURSIVE loop(_, _, _)
        loop(rest, seen, ordered) ==
            IF rest = <<>> THEN ordered
            ELSE IF Head(rest) \in seen THEN loop(Tail(rest), seen, ordered)
            ELSE loop(Tail(rest), seen \cup {Head(rest)}, Append(ordered, Head(rest)))
    IN  loop(names, {}, <<>>)

\* models.py 110-119: unique(items): the loop keeps an item unless its
\* lower-case form is in seen.
unique(names) ==
    LET RECURSIVE loop(_, _, _)
        loop(rest, seen, ordered) ==
            IF rest = <<>> THEN ordered
            ELSE IF Lower(Head(rest)) \in seen THEN loop(Tail(rest), seen, ordered)
            ELSE loop(Tail(rest), seen \cup {Lower(Head(rest))},
                      Append(ordered, Head(rest)))
    IN  loop(names, {}, <<>>)

\* pipeline.py 427-449: one loop of _ingest_extended_users over the names
\* _fetch_user_list collected, names already seen in lower case skipped.
RECURSIVE IngestEach(_, _, _, _, _, _)
IngestEach(st, names, seen, release_id, type, kind) ==
    IF names = <<>> \/ st.raised # "none"
    THEN st
    ELSE IF Lower(Head(names)) \in seen
    THEN IngestEach(st, Tail(names), seen, release_id, type, kind)
    ELSE IngestEach(RecordFor(st.db, Head(names), release_id, type, NULL, NULL, kind),
                    Tail(names), seen \cup {Lower(Head(names))}, release_id, type, kind)

LowerAll(names) == {Lower(names[n]) : n \in DOMAIN names}

\* pipeline.py 288-298: the keywords _persist_release passes to upsert_item.
PersistKwargs(summary, d, release_id) ==
    [item_id |-> release_id,
     title |-> OrDefault(d.title, summary.title),
     artists |-> OrDefault(d.artists, summary.artists),
     year |-> IntOr(d.year, summary.year),
     genres |-> d.genres,
     styles |-> d.styles,
     image_url |-> d.image_url]

\* pipeline.py 282-320: _persist_release(cursor, summary, detail).  extended
\* is  fetch_extended_users and max_user_pages; extHave and extWant are the
\* lists _fetch_user_list (451-537) collects from the stats pages.
_persist_release(db, summary, d, kind, extended, extHave, extWant) ==
    LET release_id == IntOr(d.release_id, summary.release_id)
        item == upsert_item(db.items, PersistKwargs(summary, d, release_id))
        stored == St("none", [db EXCEPT !.items = item.items])
        have == RecordEach(stored, d.have_users, release_id, "collection", kind)
        want == RecordEach(have, d.want_users, release_id, "wantlist", kind)
        rated == RecordReviews(want, d.reviews, release_id, kind)
        moreHave == IngestEach(rated, extHave, LowerAll(d.have_users),
                               release_id, "collection", kind)
        moreWant == IngestEach(moreHave, extWant, LowerAll(d.want_users),
                               release_id, "wantlist", kind)
    IN  IF item.raised # "none"
        THEN St(item.raised, db)
        ELSE IF extended THEN moreWant ELSE rated

\* pipeline.py 427-449: _ingest_extended_users(cursor, release_id,
\* existing_have, existing_want).  stats is the page /release/stats/{id}
\* with the user links of its have section and of its want section.  Both
\* calls of _fetch_user_list ask for that one URL (456-458: interaction is
\* used in the log message only) and parse_release_user_list returns every
\* user link of the page (parsers.py 165-191), so both get the same list.
_ingest_extended_users(db, release_id, existing_have, existing_want, stats, kind) ==
    LET listing == unique(stats.have \o stats.want)
        have == IngestEach(St("none", db), listing, LowerAll(existing_have),
                           release_id, "collection", kind)
    IN  IngestEach(have, listing, LowerAll(existing_want),
                   release_id, "wantlist", kind)

\* Lists of names the stats pages of a release may give.
ExtLists == {<<>>, <<"Ann", "bob">>}

\* Pages of search results: up to two releases each, the same one twice
\* included.
PageContents ==
    {<<>>} \cup {<<a>> : a \in Listed}
           \cup {<<ab[1], ab[2]>> : ab \in Listed \X Listed}

\* One entry of the request log: a search page with what the parser made of
\* it, a detail page, or a call of _persist_release; processed is crawl's
\* counter at that moment.
Request(kind, id, page) ==
    [kind |-> kind, id |-> id, page |-> page, processed |-> processed]

\* A pipeline whose crawl has not been called.
InitPipeIdle ==
    /\ crawlPc = "idle"
    /\ crawlCfg = [max_pages |-> 1, release_limit |-> NULL, commit_every |-> 1]
    /\ page_number = 1
    /\ summaries = <<>>
    /\ detail = NULL
    /\ processed = 0
    /\ pending_release_ids = {}
    /\ runs = 0
    /\ exitKind = "none"
    /\ persistCalls = [r \in ReleaseIds |-> 0]
    /\ counted = {}
    /\ requests = <<>>

SetWorking(db) ==
    /\ items' = db.items
    /\ users' = db.users
    /\ interactions' = db.interactions
    /\ seq' = db.seq

\* pipeline.py 261-263 and db.py 23: crawl runs to its end: the commit of line
\* 261, then the commit of get_connection's exit.
CrawlReturns ==
    /\ committed' = Working
    /\ crawlPc' = "idle"
    /\ exitKind' = "returned"
    /\ UNCHANGED <<items, users, interactions, seq>>

\* db.py 19-26: an exception leaves the with block through finally: the
\* connection is closed without a commit and what was not committed is gone.
CrawlRaises(exception) ==
    /\ SetWorking(committed)
    /\ crawlPc' = "idle"
    /\ exitKind' = exception
    /\ UNCHANGED committed

\* pipeline.py 175-196: crawl opens the connection, runs ensure_schema and
\* installs signal_handler for SIGINT and SIGTERM.
CrawlStart ==
    /\ crawlPc = "idle"
    /\ runs < MaxRuns
    /\ \E max_pages \in 1..MaxPages, release_limit \in {NULL, 0, 1},
          commit_every \in {0, 1, 2} :
        crawlCfg' = [max_pages |-> max_pages, release_limit |-> release_limit,
                     commit_every |-> commit_every]
    /\ EnsureSchema
    /\ processed' = 0
    /\ pending_release_ids' = {}
    /\ counted' = {}
    /\ page_number' = 1
    /\ summaries' = <<>>
    /\ detail' = NULL
    /\ runs' = runs + 1
    /\ exitKind' = "running"
    /\ crawlPc' = "page"
    /\ requests' = <<>>
    /\ UNCHANGED persistCalls

\* The release limit tested with > in place of >=.
LimitReachedStrictly ==
    crawlCfg.release_limit # NULL /\ processed > crawlCfg.release_limit

\* pipeline.py 198 and 235: release_limit is not None and
\* processed >= release_limit.
LimitReached ==
    crawlCfg.release_limit # NULL /\ processed >= crawlCfg.release_limit

\* A page range that runs one page too far.
RangeExhaustedLate(page, max_pages) == page > max_pages + 1

\* pipeline.py 197: for page_number in range(1, max_pages + 1) is over.
RangeExhausted(page, max_pages) == page > max_pages

\* A visited set that is never consulted.
AlreadyVisitedNever(release_id, pending) == FALSE

\* pipeline.py 231: summary.release_id in pending_release_ids.
AlreadyVisited(release_id, pending) == release_id \in pending

\* A crawl without the except clause around the detail fetch.
CaughtByCrawlNever(exception) == FALSE

\* pipeline.py 238-247: except RuntimeError around _fetch_release_detail.
CaughtByCrawl(exception) == exception = "RuntimeError"

\* pipeline.py 197-232: one turn of the page loop up to the parsed search
\* page.  The search fetch stands outside any try: its RuntimeError leaves
\* crawl.
FetchSearchPage ==
    /\ crawlPc = "page"
    /\ IF RangeExhausted(page_number, crawlCfg.max_pages) \/ LimitReached
       THEN CrawlReturns /\ UNCHANGED <<summaries, requests>>
       ELSE \/ /\ CrawlRaises("RuntimeError")
               /\ requests' = Append(requests, Request("search", page_number, <<>>))
               /\ UNCHANGED summaries
            \/ \E page \in PageContents :
                /\ requests' = Append(requests, Request("search", page_number, page))
                /\ IF page = <<>>
                   THEN CrawlReturns /\ UNCHANGED summaries
                   ELSE /\ summaries' = page
                        /\ crawlPc' = "release"
                        /\ exitKind' = exitKind
                        /\ UNCHANGED <<items, users, interactions, seq, committed>>
    /\ detail' = NULL
    /\ UNCHANGED <<crawlCfg, page_number, processed, pending_release_ids,
                   runs, persistCalls, counted, schema_ready, lastOp>>

\* pipeline.py 234-254: one turn of the loop over the summaries of a page, up
\* to the fetched detail: ids already visited are skipped, the release limit
\* breaks the loop, a RuntimeError of the detail fetch skips the release.
NextSummary ==
    /\ crawlPc = "release"
    /\ IF summaries = <<>>
       THEN /\ page_number' = page_number + 1
            /\ crawlPc' = "page"
            /\ detail' = NULL
            /\ UNCHANGED <<summaries, pending_release_ids, requests, exitKind>>
            /\ UNCHANGED dbVars
       ELSE IF AlreadyVisited(Head(summaries), pending_release_ids)
       THEN /\ summaries' = Tail(summaries)
            /\ detail' = NULL
            /\ UNCHANGED <<page_number, crawlPc, pending_release_ids, requests,
                           exitKind>>
            /\ UNCHANGED dbVars
       ELSE /\ pending_release_ids' = pending_release_ids \cup {Head(summaries)}
            /\ IF LimitReached
               THEN /\ summaries' = <<>>
                    /\ detail' = NULL
                    /\ UNCHANGED <<page_number, crawlPc, requests, exitKind>>
                    /\ UNCHANGED dbVars
               ELSE /\ summaries' = Tail(summaries)
                    /\ requests' = Append(requests,
                                           Request("detail", Head(summaries), <<>>))
                    /\ UNCHANGED page_number
                    /\ \/ /\ detail' = NULL
                          /\ IF CaughtByCrawl("RuntimeError")
                             THEN /\ UNCHANGED <<crawlPc, exitKind>>
                                  /\ UNCHANGED dbVars
                             ELSE /\ CrawlRaises("RuntimeError")
                                  /\ UNCHANGED <<schema_ready, lastOp>>
                       \/ /\ detail' = Head(summaries)
                          /\ crawlPc' = "persist"
                          /\ UNCHANGED exitKind
                          /\ UNCHANGED dbVars
    /\ UNCHANGED <<crawlCfg, processed, runs, persistCalls, counted>>

\* pipeline.py 256-259: _persist_release, processed += 1 and the periodic
\* commit.  _persist_release stands outside the try: what it raises leaves
\* crawl.
PersistStep ==
    /\ crawlPc = "persist"
    /\ \E kind \in FetchKinds, extended \in BOOLEAN,
          extHave \in ExtLists, extWant \in ExtLists :
        LET call == _persist_release(Working, Summary(detail), Detail(detail),
                                     kind, extended, extHave, extWant)
            checkpoint == crawlCfg.commit_every > 0
                            /\ (processed + 1) % crawlCfg.commit_every = 0
        IN  IF call.raised # "none"
            THEN /\ CrawlRaises(call.raised)
                 /\ lastOp' = Op("_persist_release", call.raised, FALSE)
                 /\ UNCHANGED <<processed, counted>>
            ELSE /\ SetWorking(call.db)
                 /\ processed' = processed + 1
                 /\ counted' = counted \cup {detail}
                 /\ committed' = IF checkpoint THEN call.db ELSE committed
                 /\ lastOp' = Op("_persist_release", "none", FALSE)
                 /\ crawlPc' = "release"
                 /\ exitKind' = exitKind
    /\ persistCalls' = [persistCalls EXCEPT ![detail] = @ + 1]
    /\ requests' = Append(requests, Request("persist", detail, <<>>))
    /\ UNCHANGED <<crawlCfg, page_number, summaries, detail, pending_release_ids,
                   runs, schema_ready>>

\* Where the main thread can stand when a signal arrives, by the step crawl
\* is at: in the session's HTTP request or its cookie refresh, in the debug
\* dump, in the profile request or its parsing, in a listing request, or in
\* code no try statement encloses.
Positions(at) ==
    IF at = "page" THEN {"search_get", "search_refresh_auth", "dump", "crawl"}
    ELSE IF at = "release" THEN {"detail_get", "detail_refresh_auth", "crawl"}
    ELSE {"persist", "profile_get", "profile_parse", "list_get", "dump"}

\* The except clauses that enclose each position, by the class they name:
\* http.py 134 (requests.RequestException) and 171 (Exception), pipeline.py
\* 240, 415 and 467 (RuntimeError), 421 and 548 (Exception).
EnclosingClauses(position) ==
    IF position = "search_get" THEN {"RequestException"}
    ELSE IF position = "search_refresh_auth" THEN {"Exception"}
    ELSE IF position = "detail_get" THEN {"RequestException", "RuntimeError"}
    ELSE IF position = "detail_refresh_auth" THEN {"Exception", "RuntimeError"}
    ELSE IF position = "profile_get" THEN {"RequestException", "RuntimeError"}
    ELSE IF position = "profile_parse" THEN {"Exception"}
    ELSE IF position = "list_get" THEN {"RequestException", "RuntimeError"}
    ELSE IF position = "dump" THEN {"Exception"}
    ELSE {}

\* An  except Exception  that behaves as a bare  except:  would.
CatchesAsBareExcept(clause, exception) ==
    \/ clause = exception
    \/ clause = "Exception"

\* Python's exception hierarchy: KeyboardInterrupt derives from BaseException
\* and not from Exception, so except Exception does not catch it; the other
\* exceptions of the model derive from Exception.
Catches(clause, exception) ==
    \/ clause = exception
    \/ clause = "Exception" /\ exception # "KeyboardInterrupt"

\* pipeline.py 182-186: signal_handler, run when SIGINT or SIGTERM arrives
\* while crawl is at work: connection.commit(), then KeyboardInterrupt, which
\* is raised where the main thread stands and leaves the with block unless
\* an except clause on its way catches it.
Signal ==
    \/ /\ crawlPc \in {"page", "release", "persist"}
       /\ committed' = Working
       /\ lastOp' = Op("signal_handler", "KeyboardInterrupt", FALSE)
       /\ \E position \in Positions(crawlPc) :
              IF \E clause \in EnclosingClauses(position) :
                     Catches(clause, "KeyboardInterrupt")
              THEN UNCHANGED <<crawlPc, exitKind, detail>>
              ELSE /\ crawlPc' = "idle"
                   /\ exitKind' = "KeyboardInterrupt"
                   /\ detail' = NULL
       /\ UNCHANGED <<items, users, interactions, seq, schema_ready>>
       /\ UNCHANGED <<crawlCfg, page_number, summaries, processed,
                      pending_release_ids, runs, persistCalls, counted, requests>>
    \* pipeline.py 194-195 and 261-273: crawl installs the handler with
    \* signal.signal and never puts the earlier handler back, so after crawl
    \* has returned or raised the process still routes SIGINT and SIGTERM to
    \* the handler of the latest run, whose connection.commit() then meets a
    \* closed connection (db.py 25-26) and raises sqlite3.ProgrammingError.
    \/ /\ crawlPc = "idle"
       /\ runs > 0
       /\ lastOp' = Op("signal_handler", "ProgrammingError", FALSE)
       /\ UNCHANGED <<items, users, interactions, seq, schema_ready, committed>>
       /\ UNCHANGED <<crawlPc, exitKind, detail, crawlCfg, page_number, summaries,
                      processed, pending_release_ids, runs, persistCalls, counted,
                      requests>>

NextPipe ==
    (CrawlStart \/ FetchSearchPage \/ NextSummary \/ PersistStep \/ Signal)
        /\ UNCHANGED <<httpVars, resolveVars, callVars, listVars, authVars, parsedReviews>>

\* The release the recording helpers are called for when called on their own.
RecordedReleases == {MaxItemId}

\* Direct calls of the three recording helpers on a connection whose schema
\* is in place.
RecordHelper(name, username, release_id, call) ==
    /\ Cardinality(call.db.interactions) <= MaxRows
    /\ SetWorking(call.db)
    /\ lastOp' = Op(name, call.raised,
                    call.raised = "none" /\ call.db.interactions # interactions
                        /\ Cardinality(call.db.interactions) = Cardinality(interactions))
    /\ UNCHANGED <<schema_ready, committed>>

RecordCollection ==
    \E username \in Names \cup {" "}, release_id \in RecordedReleases, kind \in FetchKinds :
        RecordHelper("_record_collection", username, release_id,
                     _record_collection(Working, username, release_id, kind))

RecordWantlist ==
    \E username \in Names \cup {" "}, release_id \in RecordedReleases, kind \in FetchKinds :
        RecordHelper("_record_wantlist", username, release_id,
                     _record_wantlist(Working, username, release_id, kind))

RecordReview ==
    \E username \in Names \cup {" "}, release_id \in RecordedReleases, kind \in FetchKinds,
       date \in Dates :
        RecordHelper("_record_review", username, release_id,
                     _record_review(Working,
                                    [username |-> username, rating |-> 4, date |-> date],
                                    release_id, kind))

NextRecord ==
    (RecordCollection \/ RecordWantlist \/ RecordReview)
        /\ UNCHANGED <<httpVars, resolveVars, pipeVars, callVars, listVars,
                       authVars, parsedReviews>>

\* The rows the open connection holds that the database file does not.
Uncommitted == interactions \ committed.interactions

\* db.py 19-23 and pipeline.py 188-189: a  with get_connection  block is
\* entered as crawl enters it: the connection is opened on what the file
\* holds and ensure_schema runs.
EnterBlock ==
    /\ blockExit.kind # "open"
    /\ EnsureSchema
    /\ blockExit' = [kind |-> "open", pending |-> {}]

\* pipeline.py 299-305 and 322-342 inside the block, with fetch_user_profiles
\* off: one have- or want-user of the release is recorded.  A helper that
\* raises (ValueError for a blank name, 359-361) is caught neither by
\* _persist_release nor by crawl, whose only except clause is the
\* except RuntimeError around _fetch_release_detail (238-247): the exception
\* leaves the block, and get_connection's finally closes the connection
\* without a commit (db.py 22-26), so what was written since the last commit
\* is gone.
BlockRecord ==
    /\ blockExit.kind = "open"
    /\ \E username \in {"ann", "bob", " "}, wanted \in BOOLEAN :
           LET release_id == CHOOSE r \in RecordedReleases : TRUE
               call == IF wanted
                       THEN _record_wantlist(Working, username, release_id, "off")
                       ELSE _record_collection(Working, username, release_id, "off")
           IN  /\ Cardinality(call.db.interactions) <= MaxRows
               /\ lastOp' = Op(IF wanted THEN "_record_wantlist"
                                ELSE "_record_collection", call.raised, FALSE)
               /\ IF call.raised = "none"
                  THEN /\ SetWorking(call.db)
                       /\ UNCHANGED blockExit
                  ELSE /\ SetWorking(committed)
                       /\ blockExit' = [kind |-> "exception", pending |-> Uncommitted]
    /\ UNCHANGED <<schema_ready, committed>>

\* pipeline.py 253-254: connection.commit() at a checkpoint.
BlockCheckpoint ==
    /\ blockExit.kind = "open"
    /\ Uncommitted # {}
    /\ committed' = Working
    /\ lastOp' = Op("commit", "none", FALSE)
    /\ UNCHANGED <<items, users, interactions, seq, schema_ready, blockExit>>

\* db.py 23-26: the block is left at its end: commit, then close.
BlockReturn ==
    /\ blockExit.kind = "open"
    /\ committed' = Working
    /\ lastOp' = Op("commit", "none", FALSE)
    /\ blockExit' = [kind |-> "normal", pending |-> Uncommitted]
    /\ UNCHANGED <<items, users, interactions, seq, schema_ready>>

NextConn ==
    (EnterBlock \/ BlockRecord \/ BlockCheckpoint \/ BlockReturn)
        /\ UNCHANGED <<httpVars, resolveVars, pipeVars, listVars, authVars, parsedReviews>>

(***************************************************************************)
(* scraper/pipeline.py: _fetch_user_list                                   *)
(***************************************************************************)
\* Usernames a listing page may print.
ListNames == Names \cup {"cy"}

\* The names of the user links of a listing page, in document order: up to
\* MaxPageNames of them, repeated or not.
ListLinks == UNION {[1..n -> ListNames] : n \in 0..MaxPageNames}

\* A listing request that ended in FetchError.
Failed == <<"FetchError">>

\* pipeline.py 507-509: the names of a page not seen on earlier pages.
NewNames(names, seen) ==
    LET Unseen(name) == Lower(name) \notin seen
    IN  SelectSeq(names, Unseen)

\* pipeline.py 522: if len(new_names) < len(usernames): break.
StopsOnDuplicates(new_names, usernames) == Len(new_names) < Len(usernames)

\* pipeline.py 451-455 and 147: a call of _fetch_user_list starts;
\* max_user_pages is what __init__ kept, max(0, max_user_pages).
ListStart ==
    /\ userList.pc = "idle"
    /\ \E max_user_pages \in 0..MaxUserPages :
           userList' = [NoUserList EXCEPT !.pc = "loop",
                                          !.max_user_pages = max_user_pages]

\* pipeline.py 455-530: one turn of the loop over the pages, or its end.
ListPage ==
    /\ userList.pc = "loop"
    /\ IF userList.page > userList.max_user_pages
       THEN userList' = [userList EXCEPT !.pc = "done"]
       ELSE \E response \in {Failed} \cup ListLinks :
            \* parsers.py 165-191: parse_release_user_list returns the names
            \* of the page's links through unique().
            LET outcome == IF response = Failed THEN Failed ELSE unique(response)
                new_names == NewNames(outcome, userList.seen)
                asked == [userList EXCEPT !.asked = Append(@, userList.page),
                                          !.gave = Append(@, outcome),
                                          !.links = response]
            IN  userList' =
                  IF outcome = Failed \/ outcome = <<>> \/ new_names = <<>>
                  THEN [asked EXCEPT !.pc = "done"]
                  ELSE LET kept == [asked EXCEPT
                                       !.seen = @ \cup LowerAll(new_names),
                                       !.collected = @ \o new_names]
                       IN  IF StopsOnDuplicates(new_names, outcome)
                           THEN [kept EXCEPT !.pc = "done"]
                           ELSE [kept EXCEPT !.page = @ + 1]

NextList ==
    (ListStart \/ ListPage)
        /\ UNCHANGED <<httpVars, dbVars, resolveVars, pipeVars, callVars, authVars, parsedReviews>>

(***************************************************************************)
(* scraper/auth.py: CookieFileLoader                                       *)
(***************************************************************************)
\* Files _load_from_disk is given: an empty file, a file that starts as JSON
\* and is not, a JSON list without a parsable entry, JSON lists that set the
\* cookie to "abc" and to "xyz", a JSON list that sets other cookies only, a
\* flat JSON map and a Netscape file.
LoadContents ==
    {FileContent("empty", "none", NoCf), FileContent("bad_json", "none", NoCf),
     FileContent("json_list", "none", NoCf), FileContent("json_list", "abc", NoCf),
     FileContent("json_list", "other", NoCf),
     FileContent("json_list", "xyz", NoCf), FileContent("json_map", "xyz", NoCf),
     FileContent("netscape", "abc", NoCf)}

\* auth.py 164-252: _load_from_disk raises ValueError on an empty file,
\* json.loads raises on text that starts with { or [ and is not JSON, and
\* both parsers raise ValueError when no entry could be added; otherwise the
\* jar holds the parsed cookies.
_load_from_disk(content) ==
    IF content.format = "empty" THEN "ValueError"
    ELSE IF content.format = "bad_json" THEN "JSONDecodeError"
    ELSE IF content.value = "none" THEN "ValueError"
    ELSE content.value

\* A refresh test that overlooks the modification time.
NeedRefreshIgnoresMtime(l, mtime, force) ==
    \/ force
    \/ l._cached_jar = "none"
    \/ /\ l.reload_interval # NULL /\ l.reload_interval > 0
       /\ l.since_refresh # NULL
       /\ l.since_refresh >= l.reload_interval

\* auth.py 127-145: need_refresh; a reload_interval <= 0 counts as None.
NeedRefresh(l, mtime, force) ==
    \/ force
    \/ l._cached_jar = "none"
    \/ l._last_mtime # NULL /\ mtime # l._last_mtime
    \/ /\ l.reload_interval # NULL /\ l.reload_interval > 0
       /\ l.since_refresh # NULL
       /\ l.since_refresh >= l.reload_interval

\* A session whose cookies are replaced by those of the jar.
UpdateSessionReplacing(current, jar) ==
    IF jar = "none" THEN current
    ELSE IF jar = "other" THEN "none"
    ELSE jar

\* requests: session.cookies.update(jar), jar None left out (auth.py 41-43);
\* update sets every cookie of the jar in the session and touches no other
\* cookie of the session.
UpdateSession(current, jar) ==
    IF jar \in {"none", "other"} THEN current ELSE jar

\* An except clause of _get_cookie_jar that records the failed attempt as a
\* refresh.
AfterFailedLoadRecorded(l, mtime) ==
    [l EXCEPT !._last_mtime = mtime, !.since_refresh = 0,
              !.session = UpdateSession(@, l._cached_jar)]

\* auth.py 150-154: the except clause of _get_cookie_jar returns the cached
\* jar; the fields stay as they were.
AfterFailedLoad(l, mtime) ==
    [l EXCEPT !.session = UpdateSession(@, l._cached_jar)]

\* auth.py 37-43 and 115-161: apply(session, force=force).
Apply ==
    /\ \E force \in BOOLEAN :
           LET called == [loader EXCEPT !.forced = force, !.parsed = FALSE,
                                        !.before = loader.session]
           IN  IF ~cookieFile.exists
               THEN /\ loader' = [called EXCEPT !._warned_missing = TRUE,
                                                !.applied = "missing"]
                    /\ missingRun' =
                           [active |-> TRUE,
                            warnings |-> missingRun.warnings +
                                (IF ~loader._warned_missing THEN 1 ELSE 0)]
               ELSE /\ missingRun' = NoRun
                    /\ LET normal == [called EXCEPT !.reload_interval =
                                          IF @ # NULL /\ @ <= 0 THEN NULL ELSE @]
                           jar == _load_from_disk(cookieFile.content)
                           raised == jar \in {"ValueError", "JSONDecodeError"}
                       IN  loader' =
                             IF ~NeedRefresh(loader, cookieFile.mtime, force)
                             THEN [normal EXCEPT !.applied = "cached",
                                      !.session = UpdateSession(@, loader._cached_jar)]
                             ELSE IF raised /\ Catches("Exception", jar)
                             THEN [AfterFailedLoad(normal, cookieFile.mtime) EXCEPT
                                      !.applied = "failed", !.parsed = TRUE]
                             ELSE IF raised
                             THEN [normal EXCEPT !.applied = "raised", !.parsed = TRUE]
                             ELSE [normal EXCEPT
                                      !._cached_jar = jar,
                                      !._last_mtime = cookieFile.mtime,
                                      !.since_refresh = 0,
                                      !._warned_missing = FALSE,
                                      !.session = UpdateSession(@, jar),
                                      !.applied = "loaded", !.parsed = TRUE]
    /\ UNCHANGED cookieFile

\* The operator rewrites the cookie file; the new modification time is later
\* than the old one, or the same when the write falls into the same tick of
\* the file system's clock.
WriteFile(contents) ==
    /\ \E content \in contents, mtime \in {cookieFile.mtime, cookieFile.mtime + 1} :
           /\ mtime <= MaxMtime
           /\ cookieFile' = [exists |-> TRUE, content |-> content, mtime |-> mtime]
    /\ UNCHANGED <<loader, missingRun>>

DeleteFile ==
    /\ cookieFile.exists
    /\ cookieFile' = [cookieFile EXCEPT !.exists = FALSE]
    /\ UNCHANGED <<loader, missingRun>>

\* time.monotonic() moves on; the loader compares the time since the last
\* refresh with reload_interval, so the age stops growing at MaxInterval.
Tick ==
    /\ loader.since_refresh # NULL
    /\ loader.since_refresh < MaxInterval
    /\ loader' = [loader EXCEPT !.since_refresh = @ + 1]
    /\ UNCHANGED <<cookieFile, missingRun>>

\* Files check_expiration is given: JSON lists, and one {"cookies": [...]}
\* map, with each kind of __cf_bm entry; a flat name-to-value map; a JSON
\* scalar; text that is not JSON (a Netscape file, an empty file).
ExpiryContents ==
    {FileContent("json_list", "abc", cf) :
        cf \in {NoCf} \cup [kind : {"missing", "text", "other"}, t : {0}]
                     \cup [kind : {"int", "iso"}, t : 0 .. MaxEpoch]}
    \cup {FileContent("json_wrapped", "abc", [kind |-> "int", t |-> 1]),
          FileContent("json_wrapped", "abc", NoCf),
          FileContent("json_map", "abc", NoCf),
          FileContent("json_scalar", "none", NoCf),
          FileContent("netscape", "abc", NoCf),
          FileContent("empty", "none", NoCf)}

\* A check that takes a missing file for valid cookies.
check_expiration_missing_valid(file, now) ==
    IF ~file.exists THEN TRUE
    ELSE IF file.content.format \notin {"json_list", "json_wrapped"} THEN TRUE
    ELSE LET expires == file.content.cf
         IN  IF expires.kind \notin {"int", "iso"} THEN TRUE
             ELSE IF expires.kind = "int" /\ expires.t = 0 THEN TRUE
             ELSE ~(expires.t < now)

\* auth.py 45-112: check_expiration. False when the path does not exist;
\* True when json.loads raises, when the data is a map without a "cookies"
\* list or neither a map nor a list; for the __cf_bm entry, an expires that
\* is falsy (missing, 0, ""), a string fromisoformat rejects or a value of
\* another type is passed over; False when the time read is before now.
check_expiration(file, now) ==
    IF ~file.exists THEN FALSE
    ELSE IF file.content.format \notin {"json_list", "json_wrapped"} THEN TRUE
    ELSE LET expires == file.content.cf
         IN  IF expires.kind \notin {"int", "iso"} THEN TRUE
             ELSE IF expires.kind = "int" /\ expires.t = 0 THEN TRUE
             ELSE ~(expires.t < now)

\* now = time_module.time() (auth.py 71) is drawn by the action.
CheckExpiration ==
    /\ \E now \in 1 .. MaxEpoch - 1 :
           LET valid == check_expiration(cookieFile, now)
           IN  loader' = [loader EXCEPT
                   !.checked = [result |-> IF valid THEN "valid" ELSE "expired",
                                file |-> cookieFile, now |-> now],
                   !._warned_expired = @ \/ (~valid /\ cookieFile.exists)]
    /\ UNCHANGED <<cookieFile, missingRun>>

NextExpiry ==
    (CheckExpiration \/ WriteFile(ExpiryContents) \/ DeleteFile)
        /\ UNCHANGED <<httpVars, dbVars, resolveVars, pipeVars, callVars, listVars,
                       parsedReviews>>

NextAuth ==
    (Apply \/ WriteFile(LoadContents) \/ DeleteFile \/ Tick)
        /\ UNCHANGED <<httpVars, dbVars, resolveVars, pipeVars, callVars, listVars,
                       parsedReviews>>

(***************************************************************************)
(* scraper/http.py                                                         *)
(***************************************************************************)
RECURSIVE Pow(_, _)
Pow(b, e) == IF e = 0 THEN 1 ELSE b * Pow(b, e - 1)

Min(a, b) == IF a <= b THEN a ELSE b

\* The outcome of one self._session.get: a requests.RequestException (no
\* response at all) or a response with a status code.
RequestException == NULL
Statuses == {200, 299, 301, 404, 403, 429, 500, 502, 503, 504}
Outcomes == {RequestException} \cup Statuses

\* 200 <= response.status_code < 300
Is2xx(status) == 200 <= status /\ status < 300

\* if response.status_code in {403, 429, 500, 502, 503, 504}
RetryStatusesWithNotFound == {403, 404, 429, 500, 502, 503, 504}
RetryStatuses == {403, 429, 500, 502, 503, 504}

\* if retries >= self.max_retries: raise
BudgetExhaustedOffByOne(r, max_retries) == r > max_retries
BudgetExhausted(r, max_retries) == r >= max_retries

\* _backoff_sleep: delay = self.min_delay * (self.backoff_factor ** retries).
\* backoff_factor is the rational bf_num / bf_den; the session configurations
\* below make every delay a whole number of ticks.
BackoffDelayNextExponent(c, r) ==
    (c.min_delay * Pow(c.bf_num, r + 1)) \div Pow(c.bf_den, r + 1)
BackoffDelay(c, r) == (c.min_delay * Pow(c.bf_num, r)) \div Pow(c.bf_den, r)

\* _respect_delay: how long it sleeps when entered with `elapsed` ticks since
\* the last response (NULL: no response yet) and the drawn jitter jit.
RespectDelayNoWait(elapsed, c, jit) == 0
\* A _respect_delay that leaves the jitter out of its target.
RespectDelayNoJitter(elapsed, c, jit) ==
    IF elapsed = NULL THEN 0
    ELSE IF elapsed < c.min_delay THEN c.min_delay - elapsed ELSE 0
RespectDelay(elapsed, c, jit) ==
    IF elapsed = NULL THEN 0
    ELSE LET target_delay == c.min_delay + (IF c.delay_jitter > 0 THEN jit ELSE 0)
         IN IF elapsed < target_delay THEN target_delay - elapsed ELSE 0

\* Session configurations: __init__ keeps min_delay, max(0, delay_jitter),
\* max_retries and backoff_factor as given.  Factors 2 (the session default),
\* 5/2 (the pipeline default) and 1; min_delay is bf_den^MaxRetries ticks, so
\* that every backoff delay is a whole number of ticks.
Factors == {<<2, 1>>, <<5, 2>>, <<1, 1>>}
Configs ==
    { [min_delay |-> Pow(f[2], MaxRetries), delay_jitter |-> j,
       max_retries |-> m, bf_num |-> f[1], bf_den |-> f[2]] :
        j \in {0, 1}, m \in 0..MaxRetries, f \in Factors }

\* The clocks of the model are ages: the time since an event, NULL while the
\* event has not happened.  The code compares an age with at most
\* min_delay + delay_jitter, so an age stops growing there.
AgeCap(c) == c.min_delay + c.delay_jitter
Elapse(age, d, c) == IF age = NULL THEN NULL ELSE Min(age + d, AgeCap(c))

\* How an attempt ended, as get tells the cases apart.
OutcomeKind(out) ==
    IF out = RequestException THEN "transport"
    ELSE IF Is2xx(out) THEN "returned"
    ELSE IF out \in RetryStatuses THEN "retryable"
    ELSE "unexpected"

\* http.py 57-117: the constructor's defaults, min_delay 1.5 s as 2 ticks.
DefaultConfig ==
    [min_delay |-> Pow(1, MaxRetries) + 1, delay_jitter |-> 0, max_retries |-> MaxRetries,
     bf_num |-> 2, bf_den |-> 1]

NoSend == [age |-> NULL, jit |-> 0, wait |-> 0]

\* A session nobody calls get on.
InitHttpIdle ==
    /\ cfg = DefaultConfig
    /\ since_response = NULL
    /\ pc = "idle"
    /\ retries = 0
    /\ callResult = "none"
    /\ calls = 0
    /\ attempts = 0
    /\ lastOutcome = NULL
    /\ kinds = {}
    /\ sleeps = <<>>
    /\ since_send = NULL
    /\ firstGap = NULL
    /\ prevLastKind = "none"
    /\ sent = NoSend

\* The session before its first get.
InitHttp ==
    /\ InitDbIdle
    /\ InitPipeIdle
    /\ InitCallIdle
    /\ InitListIdle
    /\ InitAuthIdle
    /\ parsedReviews = <<>>
    /\ cfg \in Configs
    /\ since_response = NULL
    /\ pc = "idle"
    /\ retries = 0
    /\ callResult = "none"
    /\ calls = 0
    /\ attempts = 0
    /\ lastOutcome = NULL
    /\ kinds = {}
    /\ sleeps = <<>>
    /\ since_send = NULL
    /\ firstGap = NULL
    /\ prevLastKind = "none"
    /\ sent = NoSend

\* get, lines 119-123: a new call starts, some time after the previous one
\* ended; retries = 0.
GetCall ==
    /\ pc = "idle"
    /\ calls < MaxCalls
    /\ \E gap \in 0..MaxGap :
        /\ since_response' = Elapse(since_response, gap, cfg)
        /\ since_send' = Elapse(since_send, gap, cfg)
    /\ calls' = calls + 1
    /\ retries' = 0
    /\ callResult' = "none"
    /\ prevLastKind' = IF attempts = 0 THEN "none" ELSE OutcomeKind(lastOutcome)
    /\ attempts' = 0
    /\ lastOutcome' = NULL
    /\ kinds' = {}
    /\ sleeps' = <<>>
    /\ firstGap' = NULL
    /\ pc' = "loop"
    /\ UNCHANGED <<cfg, sent>>

\* One iteration of get's while loop, lines 125-164: _respect_delay, the
\* HTTP attempt, and what its outcome leads to.
Attempt ==
    /\ pc = "loop"
    /\ \E out \in Outcomes, dur \in 0..MaxDur, jit \in 0..cfg.delay_jitter :
        LET wait == RespectDelay(since_response, cfg, jit)
            \* the ages when the request is sent and when its outcome is known
            sentResponse == Elapse(since_response, wait, cfg)
            sentSend == Elapse(since_send, wait, cfg)
            responded == out # RequestException
            \* self._last_request_time = time.monotonic(), line 143
            doneResponse == IF responded THEN 0 ELSE Elapse(sentResponse, dur, cfg)
            doneSend == Elapse(0, dur, cfg)
            retry ==
                /\ since_response' = Elapse(doneResponse, BackoffDelay(cfg, retries), cfg)
                /\ since_send' = Elapse(doneSend, BackoffDelay(cfg, retries), cfg)
                /\ sleeps' = Append(sleeps, BackoffDelay(cfg, retries))
                /\ retries' = retries + 1
                /\ kinds' = kinds \cup {OutcomeKind(out)}
                /\ pc' = "loop"
                /\ UNCHANGED callResult
            end(result) ==
                /\ since_response' = doneResponse
                /\ since_send' = doneSend
                /\ callResult' = result
                /\ pc' = "idle"
                /\ UNCHANGED <<sleeps, retries, kinds>>
        IN /\ attempts' = attempts + 1
           /\ firstGap' = IF attempts = 0 THEN sentSend ELSE firstGap
           /\ lastOutcome' = out
           /\ sent' = [age |-> sentResponse, jit |-> jit, wait |-> wait]
           /\ IF out = RequestException
              THEN IF BudgetExhausted(retries, cfg.max_retries)
                   THEN end("fetch_error")
                   ELSE retry
              ELSE IF Is2xx(out)
                   THEN end("returned")
                   ELSE IF out \in RetryStatuses
                        THEN IF BudgetExhausted(retries, cfg.max_retries)
                             THEN end("fetch_error")
                             ELSE retry
                        ELSE end("fetch_error")
    /\ UNCHANGED <<cfg, calls, prevLastKind>>

NextHttp ==
    (GetCall \/ Attempt) /\ UNCHANGED <<dbVars, resolveVars, pipeVars, callVars, listVars,
                                        authVars, parsedReviews>>

SpecHttp == InitHttp /\ [][NextHttp]_vars

(***************************************************************************)
(* The interactions table under ensure_schema and record_interaction       *)
(***************************************************************************)
InitInteractions ==
    /\ InitHttpIdle
    /\ InitPipeIdle
    /\ InitCallIdle
    /\ InitListIdle
    /\ InitAuthIdle
    /\ parsedReviews = <<>>
    /\ items = EmptyTable
    /\ users = EmptyTable
    /\ interactions \in LegacyInteractions
    /\ seq = Cardinality(interactions)
    /\ schema_ready = FALSE
    /\ committed = Snapshot(items, users, interactions, seq)
    /\ lastOp = NoOp
    /\ cache = EmptyTable
    /\ lookups = 0
    /\ resolved = NoLookup
    /\ firstUnder = EmptyTable

NextInteractions ==
    (EnsureSchema \/ RecordInteraction)
        /\ UNCHANGED <<httpVars, resolveVars, pipeVars, callVars, listVars,
                       authVars, parsedReviews>>

SpecInteractions == InitInteractions /\ [][NextInteractions]_vars

(***************************************************************************)
(* Claims about DiscogsScraperSession.get, checked under SpecHttp.         *)
(***************************************************************************)
\* The statuses the specification names as retried.
RetriedBySpec == {403, 429, 500, 502, 503, 504}
LastFailedRetryably ==
    attempts > 0 /\ (lastOutcome = RequestException \/ lastOutcome \in RetriedBySpec)

\* C1: one get call makes at most max_retries + 1 HTTP attempts.  Transport
\* failures and retryable statuses draw on one per-call counter that starts
\* at 0 (inside the loop it equals the number of attempts made, all of which
\* failed), and a failure met with the counter at max_retries ends the call
\* with a fetch error instead of a retry.
C1_BoundedRetries ==
    /\ attempts <= cfg.max_retries + 1
    /\ retries <= cfg.max_retries
    /\ pc = "loop" => retries = attempts /\ (attempts > 0 => LastFailedRetryably)
    /\ (pc = "idle" /\ attempts > 0) => retries = attempts - 1
    /\ (pc = "idle" /\ LastFailedRetryably) =>
           callResult = "fetch_error" /\ attempts = cfg.max_retries + 1

\* A second call on the session that used up a budget of 2 on a mix of
\* transport failures and retryable statuses and raised.
C1_Witness ==
    /\ calls = 2 /\ pc = "idle" /\ callResult = "fetch_error"
    /\ cfg.max_retries = 2 /\ attempts = 3
    /\ kinds = {"transport", "retryable"}

\* C2: a response that is neither 2xx nor one of the retried statuses ends
\* the call at once with a fetch error, with no backoff sleep after it,
\* whatever budget remains; a 2xx response ends the call by returning.
C2_TerminalStatus ==
    (attempts > 0 /\ lastOutcome # RequestException) =>
        /\ (~Is2xx(lastOutcome) /\ lastOutcome \notin RetriedBySpec) =>
               /\ pc = "idle" /\ callResult = "fetch_error"
               /\ Len(sleeps) = attempts - 1
        /\ Is2xx(lastOutcome) =>
               /\ pc = "idle" /\ callResult = "returned"
               /\ Len(sleeps) = attempts - 1

\* A 404 on the first attempt of a call whose whole budget of 2 remains.
C2_Witness ==
    /\ pc = "idle" /\ attempts = 1 /\ lastOutcome = 404
    /\ retries = 0 /\ cfg.max_retries = 2 /\ callResult = "fetch_error"

\* C3: the backoff sleep before the Nth retry of a call is
\* min_delay * backoff_factor^(N-1), whatever kind of failure came before it.
C3_BackoffFormula ==
    /\ Len(sleeps) = retries
    /\ \A n \in 1..Len(sleeps) :
          sleeps[n] * Pow(cfg.bf_den, n - 1) = cfg.min_delay * Pow(cfg.bf_num, n - 1)

\* Two retries at factor 5/2, one after a transport failure and one after a
\* retryable status.
C3_Witness ==
    /\ Len(sleeps) = 2 /\ cfg.bf_num = 5 /\ cfg.bf_den = 2
    /\ kinds = {"transport", "retryable"}

\* C4 as stated: with jitter 0, whatever the outcome of the previous call,
\* the first attempt of a call is sent at least min_delay after the last
\* attempt of the previous call.
C4_Original ==
    (cfg.delay_jitter = 0 /\ prevLastKind # "none" /\ firstGap # NULL) =>
        firstGap >= cfg.min_delay

\* C4 as amended: the spacing holds when the last attempt of the previous
\* call received a response (returned, retryable status, other status).
C4_SpacingAfterResponse ==
    (cfg.delay_jitter = 0 /\ prevLastKind \in {"returned", "retryable", "unexpected"}
        /\ firstGap # NULL) =>
        firstGap >= cfg.min_delay

\* The first attempt of a call that follows a call which raised on its last
\* retryable status.
C4_Witness ==
    /\ cfg.delay_jitter = 0 /\ prevLastKind = "retryable" /\ cfg.max_retries = 1
    /\ attempts = 1 /\ firstGap = cfg.min_delay

\* An attempt that got no response leaves the reference time where it was:
\* the time since the last response only grows over it, and stays undefined
\* when there was none.
TransportKeepsReference ==
    (attempts' = attempts + 1 /\ lastOutcome' = RequestException) =>
        IF sent'.age = NULL THEN since_response' = NULL
        ELSE since_response' # NULL /\ since_response' >= sent'.age

\* C30: every attempt, first of a call or retry, is sent at least min_delay
\* plus the drawn jitter after the last response of any status the session
\* received; an attempt before which the session received no response is
\* not delayed; a transport error does not move the reference time.
C30_EveryAttemptSpaced ==
    /\ [](/\ sent.age # NULL => sent.age >= cfg.min_delay + sent.jit
          /\ sent.age = NULL => sent.wait = 0)
    /\ [][TransportKeepsReference]_vars

\* A retry with jitter 1, sent after a retryable status and its backoff
\* sleep, that ended in a transport error.
C30_Witness ==
    /\ attempts = 2 /\ lastOutcome = RequestException
    /\ kinds = {"retryable"}
    /\ cfg.delay_jitter = 1 /\ sent.jit = 1
    /\ sent.age = cfg.min_delay + 1
    /\ since_response # NULL

(***************************************************************************)
(* The items table under upsert_item, read by the recommender              *)
(***************************************************************************)
InitItems ==
    /\ InitHttpIdle
    /\ InitPipeIdle
    /\ InitCallIdle
    /\ InitListIdle
    /\ InitAuthIdle
    /\ parsedReviews = <<>>
    /\ items \in LegacyItems
    /\ users = EmptyTable
    /\ interactions = {}
    /\ seq = 0
    /\ schema_ready = FALSE
    /\ committed = Snapshot(items, users, interactions, seq)
    /\ lastOp = NoOp
    /\ cache = EmptyTable
    /\ lookups = 0
    /\ resolved = NoLookup
    /\ firstUnder = EmptyTable

NextItems ==
    \/ EnsureSchema /\ UNCHANGED <<httpVars, resolveVars, pipeVars, callVars, listVars,
                                   authVars, parsedReviews>>
    \/ UpsertItem /\ UNCHANGED <<httpVars, cache, lookups, resolved, pipeVars, callVars, listVars,
                                 authVars, parsedReviews>>
    \/ ResolveItemId /\ UNCHANGED <<httpVars, dbVars, pipeVars, callVars, listVars,
                                    authVars, parsedReviews>>

SpecItems == InitItems /\ [][NextItems]_vars

(***************************************************************************)
(* The pipeline: crawl runs on a new database file                         *)
(***************************************************************************)
InitPipe ==
    /\ InitHttpIdle
    /\ InitDbIdle
    /\ InitPipeIdle
    /\ InitCallIdle
    /\ InitListIdle
    /\ InitAuthIdle
    /\ parsedReviews = <<>>

SpecPipe == InitPipe /\ [][NextPipe]_vars

(***************************************************************************)
(* scraper/parsers.py: the ratings of the reviews                          *)
(***************************************************************************)
\* The element select_one finds in a review node: the place its number is
\* read from ("none": no such element) and the number coerce_float returns
\* for it, in hundredths (so 450 is 4.5 and 9000 is 90; NULL: None, the
\* text holds no number).
RatingElements ==
    {[source |-> "none", value |-> NULL]} \cup
    [source : {"data-rating", "data-value", "aria-label", "text"},
     value : {NULL, 0, 90, 450, 500, 9000, 10000}]

\* parsers.py 271-297: a data-rating or data-value above 5 is divided by
\* 100; the number of an aria-label or of the element's text is returned as
\* it is read.
_extract_rating(element) ==
    IF element.source = "none" THEN NULL
    ELSE IF element.source \in {"data-rating", "data-value"}
    THEN IF element.value # NULL /\ element.value > 500
         THEN element.value \div 100
         ELSE element.value
    ELSE element.value

\* parsers.py 236-266: one review node of parse_release_detail.
ParseReview ==
    /\ Len(parsedReviews) < MaxReviews
    /\ \E element \in RatingElements :
           parsedReviews' = Append(parsedReviews,
               [found |-> element, rating |-> _extract_rating(element)])
    /\ UNCHANGED <<httpVars, dbVars, resolveVars, pipeVars, callVars, listVars,
                   authVars>>

InitReviews ==
    /\ InitHttpIdle
    /\ InitDbIdle
    /\ InitPipeIdle
    /\ InitCallIdle
    /\ InitListIdle
    /\ InitAuthIdle
    /\ parsedReviews = <<>>

SpecReviews == InitReviews /\ [][ParseReview]_vars

(***************************************************************************)
(* A cookie loader, its file and the session it is applied to              *)
(***************************************************************************)
InitAuth ==
    /\ InitHttpIdle
    /\ InitDbIdle
    /\ InitPipeIdle
    /\ InitCallIdle
    /\ InitListIdle
    /\ cookieFile = NoFile
    /\ loader \in {NewLoader(i) : i \in {NULL, 0, MaxInterval}}
    /\ missingRun = NoRun
    /\ parsedReviews = <<>>

SpecAuth == InitAuth /\ [][NextAuth]_vars

\* A refresh made before the first attempt of a call only.
_refresh_auth_first_attempt ==
    IF retries = 0
    THEN Apply /\ ~loader'.forced
    ELSE UNCHANGED authVars

\* http.py 166-172: _refresh_auth of a session with a cookie loader: apply
\* without force; the except clause catches whatever apply raises.
_refresh_auth == Apply /\ ~loader'.forced

\* Files the operator puts in place of the cookie file of a running session:
\* JSON lists that set the cookie to "abc" and to "xyz", and one without a
\* parsable entry.
SessionContents == {FileContent("json_list", v, NoCf) : v \in {"none", "abc", "xyz"}}

\* A session with a cookie loader: the constructor's apply(force=True)
\* (http.py 110-117), then one call of get, each iteration of whose loop
\* starts with _refresh_auth (http.py 125-127), while the operator rewrites
\* or deletes the cookie file at any moment, the backoff sleeps included.
NextSession ==
    (\/ loader.applied = "none" /\ Apply /\ loader'.forced /\ UNCHANGED httpVars
     \/ loader.applied # "none" /\ calls = 0 /\ GetCall /\ UNCHANGED authVars
     \/ Attempt /\ _refresh_auth
     \/ (WriteFile(SessionContents) \/ DeleteFile) /\ UNCHANGED httpVars)
        /\ UNCHANGED <<dbVars, resolveVars, pipeVars, callVars, listVars,
                       parsedReviews>>

\* The session before its construction ends, with the constructor's defaults
\* and a cookie loader without reload_interval whose file is not there yet.
InitSession ==
    /\ InitHttpIdle
    /\ InitDbIdle
    /\ InitPipeIdle
    /\ InitCallIdle
    /\ InitListIdle
    /\ cookieFile = NoFile
    /\ loader = NewLoader(NULL)
    /\ missingRun = NoRun
    /\ parsedReviews = <<>>

SpecSession == InitSession /\ [][NextSession]_vars

SpecExpiry == InitAuth /\ [][NextExpiry]_vars

(***************************************************************************)
(* One call of _fetch_user_list                                            *)
(***************************************************************************)
InitList ==
    /\ InitHttpIdle
    /\ InitDbIdle
    /\ InitPipeIdle
    /\ InitCallIdle
    /\ InitListIdle
    /\ InitAuthIdle
    /\ parsedReviews = <<>>

SpecList == InitList /\ [][NextList]_vars

(***************************************************************************)
(* A  with get_connection  block on a new database file                    *)
(***************************************************************************)
InitConn ==
    /\ InitHttpIdle
    /\ InitDbIdle
    /\ InitPipeIdle
    /\ InitCallIdle
    /\ InitListIdle
    /\ InitAuthIdle
    /\ parsedReviews = <<>>

SpecConn == InitConn /\ [][NextConn]_vars

(***************************************************************************)
(* upsert_item called with varying fields on a database whose schema is in *)
(* place                                                                   *)
(***************************************************************************)
InitFields ==
    /\ InitHttpIdle
    /\ InitPipeIdle
    /\ InitCallIdle
    /\ InitListIdle
    /\ InitAuthIdle
    /\ parsedReviews = <<>>
    /\ items = EmptyTable
    /\ users = EmptyTable
    /\ interactions = {}
    /\ seq = 0
    /\ schema_ready = TRUE
    /\ committed = Snapshot(items, users, interactions, seq)
    /\ lastOp = Op("ensure_schema", "none", FALSE)
    /\ cache = EmptyTable
    /\ lookups = 0
    /\ resolved = NoLookup
    /\ firstUnder = EmptyTable

NextFields ==
    UpsertItemFields
        /\ UNCHANGED <<httpVars, cache, lookups, resolved, pipeVars, callVars, listVars,
                       authVars, parsedReviews>>

SpecFields == InitFields /\ [][NextFields]_vars

(***************************************************************************)
(* record_interaction called on a database whose schema is in place        *)
(***************************************************************************)
InitCalls ==
    /\ InitHttpIdle
    /\ InitPipeIdle
    /\ InitCallIdle
    /\ InitListIdle
    /\ InitAuthIdle
    /\ parsedReviews = <<>>
    /\ items = EmptyTable
    /\ users = EmptyTable
    /\ interactions = {}
    /\ seq = 0
    /\ schema_ready = TRUE
    /\ committed = Snapshot(items, users, interactions, seq)
    /\ lastOp = Op("ensure_schema", "none", FALSE)
    /\ cache = EmptyTable
    /\ lookups = 0
    /\ resolved = NoLookup
    /\ firstUnder = EmptyTable

NextCalls ==
    RecordInteraction /\ UNCHANGED <<httpVars, resolveVars, pipeVars, callVars, listVars,
                                     authVars, parsedReviews>>

SpecCalls == InitCalls /\ [][NextCalls]_vars

(***************************************************************************)
(* The recording helpers called on their own                               *)
(***************************************************************************)
InitRecord ==
    /\ InitHttpIdle
    /\ InitPipeIdle
    /\ InitCallIdle
    /\ InitListIdle
    /\ InitAuthIdle
    /\ parsedReviews = <<>>
    /\ items = EmptyTable
    /\ users = EmptyTable
    /\ interactions = {}
    /\ seq = 0
    /\ schema_ready = TRUE
    /\ committed = Snapshot(items, users, interactions, seq)
    /\ lastOp = Op("ensure_schema", "none", FALSE)
    /\ cache = EmptyTable
    /\ lookups = 0
    /\ resolved = NoLookup
    /\ firstUnder = EmptyTable

SpecRecord == InitRecord /\ [][NextRecord]_vars

(***************************************************************************)
(* Persistence claims                                                      *)
(***************************************************************************)
OneRowPerEdge(rows) == \A r, q \in rows : SameEdge(r, q) => r = q

RowIds(rows) == {r.rowid : r \in rows}

\* What one successful record_interaction call does to the table: on an edge
\* already stored the rows keep their number and their ids, otherwise exactly
\* one row is added.
RecordedEdgeStep ==
    (lastOp'.op = "record_interaction" /\ lastOp'.raised = "none") =>
        IF lastOp'.conflict
        THEN Cardinality(interactions') = Cardinality(interactions)
                /\ RowIds(interactions') = RowIds(interactions)
        ELSE Cardinality(interactions') = Cardinality(interactions) + 1

\* C5: once ensure_schema has run, whatever record_interaction calls follow,
\* the interactions table holds at most one row per (user_id, item_id,
\* interaction_type); recording an edge that is already stored updates its
\* row and adds none.
C5_OneRowPerEdge ==
    /\ [](schema_ready => OneRowPerEdge(interactions))
    /\ [][RecordedEdgeStep]_vars

C5_Witness ==
    /\ schema_ready
    /\ lastOp.op = "record_interaction"
    /\ lastOp.conflict
    /\ Cardinality(interactions) = 2
    /\ \E r \in interactions : r.rating = 4 /\ r.rowid = 1

\* The rows of the table on the edge of row r.
Group(rows, r) == {q \in rows : SameEdge(r, q)}

\* C32: ensure_schema leaves, of every (user_id, item_id, interaction_type)
\* group that had rows, exactly the row with the highest rowid, so a row
\* that was alone in its group stays; run on a database whose schema is
\* already current it changes no row and leaves the schema current.
C32_DedupKeepsHighestRowid ==
    [][EnsureSchema =>
          /\ interactions' \subseteq interactions
          /\ \A r \in interactions :
                 /\ Cardinality(Group(interactions', r)) = 1
                 /\ \A kept \in Group(interactions', r) :
                        \A q \in Group(interactions, r) : q.rowid <= kept.rowid
                 /\ Group(interactions, r) = {r} => r \in interactions'
          /\ schema_ready'
          /\ schema_ready =>
                 /\ interactions' = interactions
                 /\ items' = items
                 /\ users' = users]_vars

\* ensure_schema has removed the older row of an edge stored twice and kept
\* the row with the highest rowid.
C32_Witness ==
    /\ schema_ready
    /\ lastOp.op = "ensure_schema"
    /\ seq = MaxRows
    /\ Cardinality(interactions) = MaxRows - 1
    /\ \E r \in interactions : r.rowid = MaxRows

(***************************************************************************)
(* Pipeline claims                                                         *)
(***************************************************************************)
\* _persist_release has just been called for release r: nothing else has
\* touched the connection since.
Persisted(r) == detail = r /\ crawlPc # "persist"

\* The items rows that may stand for release r: its own id or its master's.
ItemRowsOf(r) == {i \in DOMAIN items : i = r \/ i = CanonicalId(r)}

HaveNames(r) ==
    {name \in {Detail(r).have_users[n] : n \in DOMAIN Detail(r).have_users} :
        Strip(name) # ""}

HasBlankName(r) ==
    \E n \in DOMAIN Detail(r).have_users : Strip(Detail(r).have_users[n]) = ""

\* The collection edges of release r held by the user called name.
CollectionEdges(r, name) ==
    {row \in interactions :
        /\ row.interaction_type = "collection"
        /\ row.item_id \in ItemRowsOf(r)
        /\ row.user_id \in UserMatches(users, Lower(name))}

\* C6: while the pipeline persists releases every interactions row references
\* a users row and an items row that exist; when _persist_release has
\* persisted a release its item is in the items table, each of its have-users
\* is in the users table, and the edge recorded for that user carries the
\* user_id of that row.
C6_EdgesReferenceRows ==
    /\ \A row \in interactions :
           row.user_id \in DOMAIN users /\ row.item_id \in DOMAIN items
    /\ \A r \in ReleaseIds :
           Persisted(r) =>
               /\ ItemRowsOf(r) # {}
               /\ \A name \in HaveNames(r) : CollectionEdges(r, name) # {}

\* C7: after _persist_release has been called twice with the same
\* ReleaseDetail the tables hold exactly one items row for the release and
\* exactly one (user, item, 'collection') edge for each of its have-users.
C7_PersistTwiceOneRow ==
    \A r \in ReleaseIds :
        (Persisted(r) /\ persistCalls[r] = 2) =>
            /\ Cardinality(ItemRowsOf(r)) = 1
            /\ \A name \in HaveNames(r) : Cardinality(CollectionEdges(r, name)) = 1

\* C8: a persisted release whose detail names a master is stored in the items
\* row keyed by the master id, with a pressing of that master as its
\* source_release_id and no row of its own, so that two pressings share one
\* row; a persisted release without a master is stored under its own id.
C8_KeyedByMaster ==
    \A r \in ReleaseIds :
        Persisted(r) =>
            /\ CanonicalId(r) \in DOMAIN items
            /\ MasterOf(r) # NULL =>
                   /\ r \notin DOMAIN items
                   /\ items[CanonicalId(r)].source_release_id
                          \in {q \in ReleaseIds : MasterOf(q) = MasterOf(r)}
            /\ MasterOf(r) = NULL => items[r].source_release_id = r

\* What the signal handler finds to commit: in every state crawl can reach no
\* release has been counted as processed.
NothingProcessed == processed = 0 /\ counted = {}

\* C13 as stated: a terminal fetch error on a page of the crawl never ends
\* the run: crawl is never left by the RuntimeError of a fetch.
C13_FetchErrorNeverAborts == exitKind # "RuntimeError"

\* The positions of the request log.
Logged == DOMAIN requests

IsFetch(e) == e.kind \in {"search", "detail"}

\* C14: with release_limit set, processed never exceeds it, no page is
\* requested once processed has reached it, and a request that is not
\* followed by a successful persist leaves processed as it was.
C14_ReleaseLimit ==
    (runs > 0 /\ crawlCfg.release_limit # NULL) =>
        /\ processed <= crawlCfg.release_limit
        /\ \A i \in Logged :
               /\ IsFetch(requests[i]) => requests[i].processed < crawlCfg.release_limit
               /\ (i + 1 \in Logged /\ requests[i].kind # "persist") =>
                      requests[i + 1].processed = requests[i].processed

C14_Witness ==
    /\ runs = 1
    /\ crawlCfg.release_limit = 0
    /\ crawlCfg.max_pages = 2
    /\ exitKind = "returned"
    /\ requests = <<>>

\* The search requests of the log, and the search request that a later entry
\* belongs to.
Searches == {i \in Logged : requests[i].kind = "search"}

PageOf(i) == CHOOSE j \in Searches : j < i /\ \A k \in Searches : k < i => k <= j

FirstIndex(page, id) ==
    CHOOSE n \in DOMAIN page : page[n] = id /\ \A k \in DOMAIN page : page[k] = id => n <= k

\* C15: search pages are requested as 1, 2, ... and never beyond max_pages;
\* the details of a page are requested, and persisted, in the order the
\* parser gave, before the next search page; nothing is requested after a
\* search page without items.
C15_PageOrder ==
    /\ \A i \in Searches :
           /\ requests[i].id = Cardinality({j \in Searches : j <= i})
           /\ requests[i].id <= crawlCfg.max_pages
           /\ requests[i].page = <<>> => i = Len(requests)
    /\ \A i \in Logged \ Searches :
           /\ \E j \in Searches : j < i
           /\ \E n \in DOMAIN requests[PageOf(i)].page :
                  requests[PageOf(i)].page[n] = requests[i].id
           /\ requests[i].kind = "persist" =>
                  requests[i - 1].kind = "detail" /\ requests[i - 1].id = requests[i].id
    /\ \A i, k \in Logged \ Searches :
           (i < k /\ PageOf(i) = PageOf(k)
                /\ requests[i].kind = "detail" /\ requests[k].kind = "detail") =>
               FirstIndex(requests[PageOf(i)].page, requests[i].id)
                   < FirstIndex(requests[PageOf(k)].page, requests[k].id)

C15_Witness ==
    /\ Len(requests) = 4
    /\ requests[1].kind = "search" /\ requests[1].page = <<MaxItemId, 2>>
    /\ requests[2].kind = "detail" /\ requests[2].id = MaxItemId
    /\ requests[3].kind = "detail" /\ requests[3].id = 2
    /\ requests[4].kind = "search" /\ requests[4].id = 2

\* C16: within one run the detail page of a release id is requested at most
\* once, however often the id is listed and whether or not the fetch failed.
C16_DetailOnce ==
    \A i, k \in Logged :
        (i < k /\ requests[i].kind = "detail" /\ requests[k].kind = "detail") =>
            requests[i].id # requests[k].id

C16_Witness ==
    /\ Len(requests) = 4
    /\ requests[1].kind = "search" /\ requests[1].page = <<2, 2>>
    /\ requests[2].kind = "detail" /\ requests[2].id = 2
    /\ requests[3].kind = "search" /\ requests[3].page = <<2, MaxItemId>>
    /\ requests[4].kind = "detail" /\ requests[4].id = MaxItemId

StubRow(name) == [username |-> name, location |-> NoText, joined_date |-> NoText]

\* What a recording helper leaves for a username no users row matched: no
\* exception, a new users row matching the name, the interaction written for
\* it, and the stub row when no profile was obtained.
StoredForUnknown(call, username, release_id, type, kind) ==
    LET name == Strip(username)
    IN  /\ call.raised = "none"
        /\ \E id \in UserMatches(call.db.users, Lower(name)) :
               /\ id \notin DOMAIN users
               /\ \E row \in call.db.interactions :
                      /\ row.user_id = id
                      /\ row.item_id = release_id
                      /\ row.interaction_type = type
        /\ kind \in {"off", "fetch_error", "parse_error"} =>
               call.db.users = Put(users, name, StubRow(name))

\* C17: whatever the profile request of _ensure_user comes to for a username
\* no users row matches (a parsed profile, a fetch error, a parser exception,
\* no request at all), the recording helper does not raise, a users row
\* matching the name exists afterwards and the interaction is written for it;
\* when no profile was obtained the row is the stub: user_id = username, no
\* location, no joined_date.  Stated of every call that can be made on the
\* tables as they stand.
C17_UnknownUserAlwaysStored ==
    \A username \in Names, release_id \in RecordedReleases, kind \in FetchKinds :
        UserMatches(users, Lower(Strip(username))) = {} =>
            /\ StoredForUnknown(_record_collection(Working, username, release_id, kind),
                                username, release_id, "collection", kind)
            /\ StoredForUnknown(_record_wantlist(Working, username, release_id, kind),
                                username, release_id, "wantlist", kind)
            /\ StoredForUnknown(_record_review(Working,
                                               [username |-> username, rating |-> 4,
                                                date |-> 1],
                                               release_id, kind),
                                username, release_id, "rating", kind)

\* A wantlist entry of the unknown user Ann has been recorded without a
\* profile: the stub row and the edge are there.
C17_Witness ==
    /\ lastOp.op = "_record_wantlist"
    /\ lastOp.raised = "none"
    /\ users = Put(EmptyTable, "Ann", StubRow("Ann"))
    /\ seq = 1
    /\ \E row \in interactions :
           row.user_id = "Ann" /\ row.interaction_type = "wantlist"

\* The calls two of which are applied in either order: the second is one of
\* ann's ratings of item 1, with either rating and any of three dates; the
\* first is one of these or a rating by bob.
SecondCalls ==
    [user_id : {"ann"}, item_id : {1}, interaction_type : {"rating"},
     rating : {4, 5}, date_added : {NULL, 1, 2}]

OrderedCalls ==
    SecondCalls \cup {[user_id |-> "bob", item_id |-> 1, interaction_type |-> "rating",
                       rating |-> 4, date_added |-> 1]}

SameKey(a, b) ==
    /\ a.user_id = b.user_id
    /\ a.item_id = b.item_id
    /\ a.interaction_type = b.interaction_type

\* The rows of a table without their interaction_id.
Content(rows) ==
    {[user_id |-> r.user_id, item_id |-> r.item_id,
      interaction_type |-> r.interaction_type, rating |-> r.rating,
      date_added |-> r.date_added] : r \in rows}

Table == [rows |-> interactions, seq |-> seq]

\* C19 as stated: whichever of two calls is applied first, the final table
\* holds the same rows, also for two calls on the same key.
C19_Original ==
    \A a \in OrderedCalls, b \in SecondCalls :
        Content(RecordCall(RecordCall(Table, a), b).rows)
            = Content(RecordCall(RecordCall(Table, b), a).rows)

\* C19, amended: a call applied twice leaves the table as after one
\* application; two calls on different keys leave the same rows in either
\* order; of two calls on the same key the later one decides: the row carries
\* its rating, and its date unless that is null, so the two orders agree only
\* when the ratings are equal and the dates are equal or one of them is null.
C19_IdempotentLaterCallWins ==
    /\ \A a \in OrderedCalls :
           LET once == RecordCall(Table, a)
           IN  RecordCall(once, a) = once
    /\ \A a \in OrderedCalls, b \in SecondCalls :
           LET ab == RecordCall(RecordCall(Table, a), b).rows
               ba == RecordCall(RecordCall(Table, b), a).rows
               agree == Content(ab) = Content(ba)
           IN  IF SameKey(a, b)
               THEN /\ \A r \in ConflictRows(ab, b.user_id, b.item_id,
                                             b.interaction_type) :
                           /\ r.rating = b.rating
                           /\ b.date_added # NULL => r.date_added = b.date_added
                    /\ agree <=>
                           /\ a.rating = b.rating
                           /\ \/ a.date_added = b.date_added
                              \/ a.date_added = NULL
                              \/ b.date_added = NULL
               ELSE agree

\* A second call on the key of a stored row has replaced its rating, 4, by
\* none and kept its date.
C19_Witness ==
    /\ lastOp.op = "record_interaction"
    /\ lastOp.conflict
    /\ seq = 1
    /\ \E r \in interactions : r.rating = NULL /\ r.date_added = 1

Blank(text) == text = NoText \/ text = ""

\* C20 as stated: when upsert_item hits an existing row, an empty or missing
\* incoming title or artist leaves the stored one, a missing year or image
\* leaves the stored one, and genre and style become the incoming names,
\* deduplicated, sorted and joined.  Stated of every call that can be made on
\* the table as it stands.
C20_BlankNeverReplaces ==
    \A r \in Listed : \A kw \in FieldKwargs(r) :
        kw.item_id \in DOMAIN items =>
            LET old == items[kw.item_id]
                new == upsert_item(items, kw).items[kw.item_id]
            IN  /\ Blank(kw.title) => new.title = old.title
                /\ Blank(kw.artists) => new.artist = old.artist
                /\ kw.year = NULL => new.year = old.year
                /\ kw.image_url = NoText => new.image_url = old.image_url
                /\ new.genre = JoinSorted(kw.genres)
                /\ new.style = JoinSorted(kw.styles)

DetailFetchFailed ==
    /\ Len(requests') = Len(requests) + 1
    /\ requests'[Len(requests')].kind = "detail"
    /\ detail' = NULL

\* C28: a detail fetch that ends in a terminal fetch error writes no row,
\* leaves the processed counter and the committed database as they were, and
\* crawl goes on with the rest of the same search page.
C28_FailedDetailSkipped ==
    [][ DetailFetchFailed =>
            /\ UNCHANGED <<items, users, interactions, seq, committed, processed,
                           counted, page_number>>
            /\ crawlPc' = "release"
            /\ exitKind' = "running"
            /\ summaries' = Tail(summaries) ]_vars

\* The detail fetch of the first release of a page failed and the detail of
\* the second one has been fetched.
C28_Witness ==
    /\ Len(requests) = 3
    /\ requests[1].kind = "search" /\ requests[1].page = <<2, MaxItemId>>
    /\ requests[2].kind = "detail" /\ requests[2].id = 2
    /\ requests[3].kind = "detail" /\ requests[3].id = MaxItemId
    /\ crawlPc = "persist" /\ detail = MaxItemId
    /\ processed = 0 /\ exitKind = "running"

\* C26: once the signal handler has run during a crawl (its commit met the
\* open connection and it raised KeyboardInterrupt), the transaction is
\* committed and the run is over by the interrupt: crawl is left with
\* KeyboardInterrupt, wherever the signal met it, so the run makes no further
\* request and no further write.
C26_InterruptEndsRun ==
    (lastOp.op = "signal_handler" /\ lastOp.raised = "KeyboardInterrupt") =>
        /\ crawlPc = "idle"
        /\ exitKind = "KeyboardInterrupt"
        /\ committed = Working

\* A signal arrived after the detail of a release had been fetched.
C26_Witness ==
    /\ lastOp.op = "signal_handler"
    /\ exitKind = "KeyboardInterrupt"
    /\ Len(requests) = 2
    /\ requests[2].kind = "detail"
    /\ pending_release_ids # {}

\* The lower-case names of the pages before page i of the running call.
SeenBefore(i) ==
    UNION {LowerAll(userList.gave[k]) : k \in 1..(i - 1)}

\* Most of the names of page i had been seen on earlier pages.
MajoritySeen(i) ==
    LET names == userList.gave[i]
        dups == {n \in DOMAIN names : Lower(names[n]) \in SeenBefore(i)}
    IN  2 * Cardinality(dups) > Len(names)

\* What ends the fetch after page i, as the claim has it.
StopsAfter(i) ==
    \/ userList.gave[i] = Failed
    \/ userList.gave[i] = <<>>
    \/ MajoritySeen(i)
    \/ i = userList.max_user_pages

\* C25 as stated: the listing pages are asked for as 1, 2, ... and at most
\* max_user_pages of them; the fetch goes on after a page unless the page was
\* empty, its fetch failed, most of its names had been seen before or the
\* budget is used up: a page with only a minority of seen names does not
\* stop it.
C25_StopsOnMajorityOnly ==
    /\ Len(userList.asked) <= userList.max_user_pages
    /\ \A i \in DOMAIN userList.asked :
           /\ userList.asked[i] = i
           /\ i < Len(userList.asked) => ~StopsAfter(i)
           /\ (i = Len(userList.asked) /\ userList.pc = "done") => StopsAfter(i)

\* C18 as stated: when a release with a blank name among its have-users has
\* been persisted, only that record is dropped: the run goes on and the
\* collection edges of the other have-users are stored.
C18_BlankNameDropped ==
    \A r \in ReleaseIds :
        (Persisted(r) /\ HasBlankName(r)) =>
            /\ exitKind = "running"
            /\ \A name \in HaveNames(r) : CollectionEdges(r, name) # {}

\* C9: a release first stored under item m (the id of its master, or its own
\* id when it has no master) is resolved to m by a later lookup of its raw
\* id, whatever was upserted in between, other pressings of the same master
\* included.  The lookup is the first the recommender makes, so that no cached
\* answer takes part.
C9_ResolvesToFirstMaster ==
    (resolved.expected # NULL /\ lookups = 1) => resolved.result = resolved.expected

\* The positions of the links whose name, ignoring case, no earlier link
\* carries.
FirstOccurrences(links) ==
    {i \in DOMAIN links : \A k \in 1..(i - 1) : Lower(links[k]) # Lower(links[i])}

\* C35: the list parse_release_user_list returns for a page holds no two
\* names equal ignoring case; its entries are the first occurrences of the
\* page's names, in document order, each with the casing of that occurrence.
C35_FirstOccurrencesInOrder ==
    (userList.gave # <<>> /\ userList.links # Failed) =>
        LET links == userList.links
            kept == userList.gave[Len(userList.gave)]
            firsts == FirstOccurrences(links)
        IN  /\ \A j, k \in DOMAIN kept : j # k => Lower(kept[j]) # Lower(kept[k])
            /\ Len(kept) = Cardinality(firsts)
            /\ \A j \in DOMAIN kept :
                   \E i \in firsts :
                       /\ kept[j] = links[i]
                       /\ Cardinality({k \in firsts : k < i}) = j - 1

\* A page printed "Ann", "bob" and "ann" in that order, and "Ann" and "bob"
\* were returned.
C35_Witness ==
    /\ userList.links = <<"Ann", "bob", "ann">>
    /\ userList.gave # <<>>
    /\ userList.gave[Len(userList.gave)] = <<"Ann", "bob">>

\* C33: once ensure_schema has run, no operation of the pipeline on the
\* connection deletes a users, items or interactions row: every row stays
\* and the three row counts never decrease, so that for each table the
\* count at the end is the count at the start plus the rows added.
C33_NoRowDeleted ==
    [][/\ DOMAIN users \subseteq DOMAIN users'
       /\ DOMAIN items \subseteq DOMAIN items'
       /\ RowIds(interactions) \subseteq RowIds(interactions')
       /\ Cardinality(DOMAIN users') >= Cardinality(DOMAIN users)
       /\ Cardinality(DOMAIN items') >= Cardinality(DOMAIN items)
       /\ Cardinality(interactions') >= Cardinality(interactions)]_vars

\* An edge already stored has been recorded again, and both rows of the
\* interactions table and both users are still there.
C33_Witness ==
    /\ lastOp.conflict
    /\ lastOp.raised = "none"
    /\ Cardinality(interactions) = 2
    /\ Cardinality(DOMAIN users) = 2

\* Some users row matches the username, trimmed, ignoring case.
Known(us, username) ==
    \E id \in DOMAIN us :
        Lower(id) = Lower(Strip(username)) \/ Lower(us[id].username) = Lower(Strip(username))

C36_ListingsKeptApart ==
    \A stats \in [have : {<<>>, <<"ann">>}, want : {<<>>, <<"bob">>}] :
        LET release_id == CHOOSE r \in RecordedReleases : TRUE
            call == _ingest_extended_users(Working, release_id, <<>>, <<>>,
                                           stats, "off")
            added == call.db.interactions \ interactions
            Added(name, type) ==
                \E row \in added : /\ row.item_id = release_id
                                    /\ row.interaction_type = type
                                    /\ Lower(row.user_id) = name
        IN  /\ stats.have # <<>> => ~Added("ann", "wantlist")
            /\ stats.want # <<>> => ~Added("bob", "collection")

\* C37 as stated: a lookup of id x made while the items table holds a row
\* with item_id = x or source_release_id = x resolves to the item_id of such
\* a row, also when x was looked up, and not found, before the row was
\* inserted.
C37_LookupSeesInsertedRow ==
    [][lookups' = lookups + 1 =>
          LET x == resolved'.raw
              hits == {i \in DOMAIN items :
                          i = x \/ items[i].source_release_id = x}
          IN  hits # {} => resolved'.result \in hits]_vars

\* C40: the handler that crawl installs for SIGINT and SIGTERM runs only
\* while the connection of its run is open: after crawl has returned or raised
\* and the connection is closed, a signal is no longer routed to it, so the
\* handler never meets a closed connection.
C40_HandlerOnlyWhileOpen ==
    ~(lastOp.op = "signal_handler" /\ lastOp.raised = "ProgrammingError")

(***************************************************************************)
(* Claims about the cookie loader                                          *)
(***************************************************************************)
\* The three reasons for which a call without force reads the file again.
Stale ==
    \/ loader._cached_jar = "none"
    \/ loader._last_mtime # NULL /\ loader._last_mtime # cookieFile.mtime
    \/ /\ loader.reload_interval \notin {NULL, 0}
       /\ loader.since_refresh # NULL
       /\ loader.since_refresh >= loader.reload_interval

\* C21: a call of apply without force, the file being there, parses the file
\* exactly when no jar is cached, or the file's modification time differs
\* from the recorded one, or a positive reload_interval has elapsed since the
\* last successful load; otherwise it applies the cached jar; and a call that
\* reloads sets the session's cookie to the value the file now holds for it.
C21_ReloadsOnlyWhenStale ==
    [][(Apply /\ cookieFile.exists /\ ~loader'.forced) =>
          /\ loader'.parsed <=> Stale
          /\ ~loader'.parsed =>
                 /\ loader'.applied = "cached"
                 /\ loader._cached_jar # "other" =>
                        loader'.session = loader._cached_jar
          /\ (loader'.applied = "loaded" /\ cookieFile.content.value # "other") =>
                 loader'.session = cookieFile.content.value]_vars

\* A call without force has replaced the cookie "abc" by the "xyz" of the
\* rewritten file, the loader having no reload_interval.
C21_Witness ==
    /\ loader.applied = "loaded" /\ ~loader.forced
    /\ loader.reload_interval = NULL
    /\ loader.before = "abc" /\ loader.session = "xyz"
    /\ loader._last_mtime = MaxMtime

\* The calls the session makes: force only at construction, before any jar
\* is cached (http.py 110-117), and no force afterwards (http.py 166-172).
AsCalledFromSession == loader'.forced => loader._cached_jar = "none"

\* C22: when the reload fails, apply does not raise, the previously cached
\* jar (or none) is applied, the cached jar, the recorded modification time
\* and the refresh time stay as they were, and the file is still due for a
\* reload at the next call.
C22_FailedReloadKeepsCache ==
    [][(Apply /\ cookieFile.exists /\ AsCalledFromSession
              /\ loader'.parsed /\ loader'.applied # "loaded") =>
          /\ loader'.applied = "failed"
          /\ loader'.session = UpdateSession(loader.session, loader._cached_jar)
          /\ loader'._cached_jar = loader._cached_jar
          /\ loader'._last_mtime = loader._last_mtime
          /\ loader'.since_refresh = loader.since_refresh
          /\ Stale']_vars

\* A reload of a rewritten file failed while the jar "abc" was cached.
C22_Witness ==
    /\ loader.applied = "failed" /\ ~loader.forced
    /\ loader._cached_jar = "abc" /\ loader.session = "abc"
    /\ loader._last_mtime # cookieFile.mtime
    /\ cookieFile.exists /\ cookieFile.content.value = "none"

\* C24 as stated: while the file is missing apply leaves the session's jar
\* as it was, and over a run of consecutive calls made with the file missing
\* the warning has been logged exactly once.
C24_OneWarningPerRun ==
    missingRun.active =>
        /\ loader.applied = "missing"
        /\ loader.session = loader.before
        /\ missingRun.warnings = 1

\* C39: apply only adds or overwrites cookies of the session: a cookie the
\* session holds before the call is still there after it, and with the value
\* it had when the jar that is applied (the reloaded file, or the cached jar)
\* has no entry for it.
C39_ApplyKeepsOtherCookies ==
    [][Apply =>
          /\ loader.session # "none" => loader'.session # "none"
          /\ (loader'.applied = "loaded" /\ cookieFile.content.value = "other") =>
                 loader'.session = loader.session
          /\ (loader'.applied \in {"cached", "failed"}
                  /\ loader._cached_jar = "other") =>
                 loader'.session = loader.session]_vars

\* The session held the cookie "abc" of an earlier load, the file was
\* rewritten without an entry for it, and the call that reloaded the file
\* has left the cookie in the session.
C39_Witness ==
    /\ loader.applied = "loaded" /\ loader.parsed
    /\ loader._cached_jar = "other"
    /\ cookieFile.exists /\ cookieFile.content.value = "other"
    /\ loader.before = "abc" /\ loader.session = "abc"

\* C31: in a session with a cookie loader every HTTP attempt, each retry
\* included, comes after an apply made in the same iteration of the loop, so
\* a cookie file whose modification time has changed since the last load,
\* during a backoff sleep for one, is read before the attempt is made, and
\* the attempt is made with the cookie the file now holds.
C31_ApplyBeforeEveryAttempt ==
    [][Attempt =>
          /\ loader'.applied # "none" /\ ~loader'.forced
          /\ loader'.before = loader.session
          /\ (cookieFile.exists /\ loader._last_mtime # cookieFile.mtime) =>
                 /\ loader'.parsed
                 /\ cookieFile.content.value \in {"abc", "xyz"} =>
                        /\ loader'.applied = "loaded"
                        /\ loader'.session = cookieFile.content.value
                        /\ loader'._last_mtime = cookieFile.mtime]_vars

\* The first attempt of a call was made with the cookie "abc"; the file was
\* rewritten during the backoff sleep, and the retry was made with "xyz".
C31_Witness ==
    /\ attempts = 2 /\ retries = 1 /\ Len(sleeps) = 1 /\ calls = 1
    /\ loader.applied = "loaded" /\ ~loader.forced
    /\ loader.before = "abc" /\ loader.session = "xyz"

\* The __cf_bm entry of the file carries an expires, an epoch number or an
\* ISO-8601 string, for a time before now.
CfPast(file, now) ==
    /\ file.exists
    /\ file.content.format \in {"json_list", "json_wrapped"}
    /\ file.content.cf.kind \in {"int", "iso"}
    /\ file.content.cf.t < now

\* C23 as stated: check_expiration returns false only when __cf_bm is there
\* with an expires in the past, and true in every other case, the absent
\* cookie file included.
C23_Original ==
    loader.checked.result = "expired" =>
        CfPast(loader.checked.file, loader.checked.now)

\* C23: check_expiration returns false when the cookie file is absent and
\* when the file's __cf_bm entry has an expires in the past other than the
\* number 0, and true in every other case.
C23_ExpiredOrMissing ==
    loader.checked.result # "none" =>
        (loader.checked.result = "expired" <=>
            \/ ~loader.checked.file.exists
            \/ /\ CfPast(loader.checked.file, loader.checked.now)
               /\ loader.checked.file.content.cf # [kind |-> "int", t |-> 0])

\* A check has found the cookie file absent.
C23_Witness ==
    /\ loader.checked.result = "expired"
    /\ ~loader.checked.file.exists
    /\ loader.checked.file = cookieFile

(***************************************************************************)
(* Claims about the parsers                                                *)
(***************************************************************************)
\* C27 as stated: every rating put in a Review lies between 0 and 5, and a
\* value found on the 0-100 scale is scaled down proportionally (90 becomes
\* 4.5) wherever it was read from; values are in hundredths.
C27_RatingsOnFiveScale ==
    \A i \in 1 .. Len(parsedReviews) :
        LET review == parsedReviews[i]
        IN  review.rating # NULL =>
                /\ review.rating >= 0
                /\ review.rating <= 500
                /\ review.found.value > 500 =>
                       review.rating * 100 = review.found.value * 5

====
